---- MODULE Spec2Model ----
(***************************************************************************)
(* Hummock iterator family: the concat iterator over a run of              *)
(* non-overlapping SSTs (ConcatIteratorInner, ConcatSstableIterator) and   *)
(* the binary-heap merge iterator (ordered and unordered) over such        *)
(* children.                                                               *)
(***************************************************************************)
EXTENDS Integers, Sequences, FiniteSets, TLC

VARIABLES
    it,           \* the concat iterator driven on its own
    ret,          \* what the last call on it returned: "Ok", "Pending", "None"
    start,        \* how the current scan of it began: [op, key]
    emitted,      \* entries it was positioned on since the scan began
    loads,        \* SST indexes asked of the store since the scan began
    calls,        \* the store calls of the last call on it: [fn, id]
    cfg,          \* the type parameters and options: [root, ordered, dir, kind, ...]
    iters,        \* merge: child id -> Node.iter
    heap,         \* merge: child ids held by the BinaryHeap
    top,          \* merge: the child BinaryHeap::peek() returns (0: empty heap)
    unused_iters, \* merge: child ids held by the LinkedList
    last_table_key, \* merge: Vec<u8> buffer of the ordered next_inner
    mstart,       \* how the current scan of the merge began: [op, key]
    memitted,     \* entries [key, value, child] the merge was positioned on
    mret,         \* what the last call on the merge returned: "Ok", "Err", "None"
    failed,       \* merge: the child whose next() failed in the last call (0: none)
    got,          \* what the last key() / value() call gave: an entry field, "Panic"
    last,         \* the last call made: "new", "rewind", "seek", "next", ...
    srv,          \* dashboard: the DashboardService and the requests in flight
    session       \* frontend: the session and the handle_dml call on it

vars == <<it, ret, start, emitted, loads, calls, cfg, iters, heap, top, unused_iters,
          last_table_key, mstart, memitted, mret, failed, got, last, srv, session>>

concatVars == <<it, ret, start, emitted, loads, calls>>
mergeVars == <<iters, heap, top, unused_iters, last_table_key, mstart, memitted, mret,
               failed>>
serviceVars == <<srv, session>>

----------------------------------------------------------------------------
(* Bounds of the model *)

\* children of a merge iterator
NumChildren == 2
\* entries held by all the SSTs of one configuration
MaxTotalKeys == 3
\* entries per SST block
BlockCapacity == 2

UserKeys == {1, 2}
Epochs == {1, 2}

----------------------------------------------------------------------------
(* Keys, values, the versioned comparator *)

FullKey(uk, epoch) == [uk |-> uk, epoch |-> epoch]

Put(data) == [tag |-> "Put", data |-> data]
Delete == [tag |-> "Delete", data |-> ""]

Entry(k, v) == [key |-> k, value |-> v]

\* VersionedComparator::compare_key: user key ascending, then epoch descending
compare_key(a, b) ==
    IF a.uk < b.uk THEN "Less"
    ELSE IF a.uk > b.uk THEN "Greater"
    ELSE IF a.epoch > b.epoch THEN "Less"
    ELSE IF a.epoch < b.epoch THEN "Greater"
    ELSE "Equal"

KeyLe(a, b) == compare_key(a, b) \in {"Less", "Equal"}
KeyLt(a, b) == compare_key(a, b) = "Less"

Forward == "Forward"
Backward == "Backward"

----------------------------------------------------------------------------
(* SstableIterator / BackwardSstableIterator over one SST.  An SST is the  *)
(* sequence of its entries in ascending key order; entry i lies in block   *)
(* (i - 1) \div BlockCapacity.                                             *)

BlockOf(i) == (i - 1) \div BlockCapacity

\* what one block load adds to an SST iterator's local statistics; the
\* counters are followed only where cfg.stats says so
StatUnit == IF cfg.stats THEN 1 ELSE 0

\* TI::create / SstableIterator::new
Sst_create(table, dir) ==
    [table |-> table, pos |-> 0, pending |-> FALSE, dir |-> dir, stats |-> 0]

Sst_is_valid(s) == ~s.pending /\ s.pos >= 1 /\ s.pos <= Len(s.table)
Sst_key(s) == s.table[s.pos].key
Sst_value(s) == s.table[s.pos].value

Sst_rewind(s) ==
    [s EXCEPT !.pos = IF s.dir = Forward THEN 1 ELSE Len(s.table), !.pending = FALSE,
              !.stats = s.stats + StatUnit]

\* first position with key >= k (forward), last position with key <= k (backward)
Sst_seek(s, k) ==
    LET ge == {i \in 1..Len(s.table) : KeyLe(k, s.table[i].key)}
        le == {i \in 1..Len(s.table) : KeyLe(s.table[i].key, k)}
    IN  [s EXCEPT !.pending = FALSE,
                  !.stats = s.stats + StatUnit,
                  !.pos = IF s.dir = Forward
                          THEN (IF ge = {} THEN Len(s.table) + 1
                                ELSE CHOOSE i \in ge : \A j \in ge : i <= j)
                          ELSE (IF le = {} THEN 0
                                ELSE CHOOSE i \in le : \A j \in le : i >= j)]

Sst_step(s) == IF s.dir = Forward THEN s.pos + 1 ELSE s.pos - 1

\* advance the in-block cursor; falling off the block is Pending.  Falling
\* off the last block of the table is Pending too, the end being found by
\* await_next, or (cfg.eager_end) is found at once: Ready, and exhausted
Sst_poll_next(s) ==
    LET n == Sst_step(s)
    IN  IF n >= 1 /\ n <= Len(s.table) /\ BlockOf(n) = BlockOf(s.pos)
        THEN [it |-> [s EXCEPT !.pos = n], ret |-> "Ok"]
        ELSE IF cfg.eager_end /\ (n < 1 \/ n > Len(s.table))
        THEN [it |-> [s EXCEPT !.pos = n], ret |-> "Ok"]
        ELSE [it |-> [s EXCEPT !.pending = TRUE], ret |-> "Pending"]

\* load the next block and stand on its first entry; past the table: exhausted
Sst_await_next(s) ==
    IF s.pending
    THEN [s EXCEPT !.pos = Sst_step(s), !.pending = FALSE,
                   !.stats = IF Sst_step(s) >= 1 /\ Sst_step(s) <= Len(s.table)
                             THEN s.stats + StatUnit ELSE s.stats]
    ELSE s

\* SstableIterator::next_for_compact: synchronous step, every version kept
Sst_next_for_compact(s) ==
    [s EXCEPT !.pos = s.pos + 1,
              !.stats = IF s.pos + 1 <= Len(s.table) /\ BlockOf(s.pos + 1) # BlockOf(s.pos)
                        THEN s.stats + StatUnit ELSE s.stats]

\* a failed call (I/O failure, checksum error, corrupt entry) is fatal to the
\* SST iterator: it is Exhausted
Sst_failed(s) ==
    [s EXCEPT !.pos = IF s.dir = Forward THEN Len(s.table) + 1 ELSE 0, !.pending = FALSE]

\* SstableIterator::collect_local_statistic
Sst_collect_local_statistic(s, stats) == stats + s.stats

----------------------------------------------------------------------------
(* Iterators.  One record shape serves the three concrete iterator types:  *)
(*   kind "ConcatIteratorInner"   : concat_inner.rs                        *)
(*   kind "ConcatSstableIterator" : compact_concat_iterator.rs             *)
(*   kind "SstableIterator"       : a bare SST iterator, kept in the       *)
(*                                  sstable_iter slot over tables[1]       *)
(* Option<TI> is a sequence of length 0 (None) or 1 (Some).                *)

ConcatInner == "ConcatIteratorInner"
ConcatCompact == "ConcatSstableIterator"
SstIter == "SstableIterator"

KeyRangeLeft(table) == table[1].key
KeyRangeRight(table) == table[Len(table)].key

\* SstableInfo.key_range of a table as its builder writes it: the first and
\* the last key, not open
KeyRange(left, right, inf) == [left |-> left, right |-> right, inf |-> inf]
KeyRangeOf(table) == KeyRange(KeyRangeLeft(table), KeyRangeRight(table), FALSE)

\* ConcatIteratorInner::new / ConcatSstableIterator::new
Concat_new(kind, dir, tables) ==
    [kind |-> kind, dir |-> dir, tables |-> tables,
     key_ranges |-> [i \in 1..Len(tables) |-> KeyRangeOf(tables[i])], cur_idx |-> 0,
     sstable_iter |-> IF kind = SstIter THEN <<Sst_create(tables[1], dir)>> ELSE <<>>,
     pending_stage |-> "None", is_pending |-> FALSE, stats |-> 0, fail_at |-> 0]

\* the store and the SST iterators under an iterator fail on request: with
\* fail_at = n > 0 the n-th fallible call from now returns an error
Fails(c) == c.fail_at = 1
Tick(c) == [c EXCEPT !.fail_at = IF c.fail_at > 0 THEN c.fail_at - 1 ELSE 0]
Armed(c, n) == [c EXCEPT !.fail_at = n]

\* [it, ret, io]: the iterator after a call, what the call returned, and the
\* SST indexes the call asked of the store, in order
Res(i, r, io) == [it |-> i, ret |-> r, io |-> io]

\* SstableInfo.key_range of an SST (generate_tables: smallest / largest key)
\* slice::partition_point on a partitioned slice, given what the predicate
\* answers for each element: the length of the prefix on which it holds
partition_point(holds) ==
    LET bad == {i \in 1..Len(holds) : ~holds[i]}
    IN  IF bad = {} THEN Len(holds)
        ELSE (CHOOSE i \in bad : \A j \in bad : i <= j) - 1

saturating_sub(a, b) == IF a >= b THEN a - b ELSE 0

Concat_is_valid(c) == c.sstable_iter # <<>> /\ Sst_is_valid(c.sstable_iter[1])
Concat_key(c) == Sst_key(c.sstable_iter[1])
Concat_value(c) == Sst_value(c.sstable_iter[1])

\* self.sstable_iter.take() that drops the old iterator with its statistics
take_sstable_iter_uncollected(c) == [c EXCEPT !.sstable_iter = <<>>]

\* self.sstable_iter.take(), the old iterator's statistics collected into
\* self.stats
take_sstable_iter(c) ==
    [c EXCEPT !.sstable_iter = <<>>,
              !.stats = IF c.sstable_iter # <<>>
                        THEN Sst_collect_local_statistic(c.sstable_iter[1], c.stats)
                        ELSE c.stats]

\* the store call seek_idx makes for table idx: ConcatIteratorInner chooses by
\* read_options.prefetch, ConcatSstableIterator always loads with prefetch
Concat_store_call(kind, idx) ==
    IF kind = ConcatInner
    THEN IF cfg.prefetch THEN [fn |-> "load_table", id |-> idx]
         ELSE [fn |-> "sstable", id |-> idx]
    ELSE [fn |-> "load_table", id |-> idx]

\* seek_idx taking the last table of the run for the end of the run
Concat_seek_idx_off_by_one(c, idx, seek_key) ==
    IF idx + 1 >= Len(c.tables)
    THEN Res(take_sstable_iter(c), "Ok", <<>>)
    ELSE LET created == Sst_create(c.tables[idx + 1], c.dir)
             sstable_iter == IF seek_key # <<>>
                             THEN Sst_seek(created, seek_key[1])
                             ELSE Sst_rewind(created)
         IN  Res([take_sstable_iter(c) EXCEPT !.sstable_iter = <<sstable_iter>>,
                                              !.cur_idx = idx],
                 "Ok", <<idx>>)

\* seek_idx reporting the end of the run as an error
Concat_seek_idx_end_is_error(c, idx, seek_key) ==
    IF idx >= Len(c.tables)
    THEN Res(take_sstable_iter(c), "Err", <<>>)
    ELSE IF Fails(c) THEN Res(Tick(c), "Err", <<idx>>)
    ELSE IF Fails(Tick(c)) THEN Res(Tick(Tick(c)), "Err", <<idx>>)
    ELSE LET created == Sst_create(c.tables[idx + 1], c.dir)
             sstable_iter == IF seek_key # <<>>
                             THEN Sst_seek(created, seek_key[1])
                             ELSE Sst_rewind(created)
         IN  Res([take_sstable_iter(Tick(Tick(c))) EXCEPT
                      !.sstable_iter = <<sstable_iter>>, !.cur_idx = idx],
                 "Ok", <<idx>>)

\* seek_idx that installs the new child without recording its index
Concat_seek_idx_keeps_cur_idx(c, idx, seek_key) ==
    IF idx >= Len(c.tables)
    THEN Res(take_sstable_iter(c), "Ok", <<>>)
    ELSE IF Fails(c) THEN Res(Tick(c), "Err", <<idx>>)
    ELSE IF Fails(Tick(c)) THEN Res(Tick(Tick(c)), "Err", <<idx>>)
    ELSE LET created == Sst_create(c.tables[idx + 1], c.dir)
             sstable_iter == IF seek_key # <<>>
                             THEN Sst_seek(created, seek_key[1])
                             ELSE Sst_rewind(created)
         IN  Res([take_sstable_iter(Tick(Tick(c))) EXCEPT
                      !.sstable_iter = <<sstable_iter>>],
                 "Ok", <<idx>>)

\* seek_idx of ConcatIteratorInner and of ConcatSstableIterator: the store's
\* load and the new iterator's seek / rewind may each return an error, which
\* `?` hands back before self is touched
Concat_seek_idx(c, idx, seek_key) ==
    IF idx >= Len(c.tables)
    THEN Res(take_sstable_iter(c), "Ok", <<>>)
    ELSE IF Fails(c) THEN Res(Tick(c), "Err", <<idx>>)
    ELSE IF Fails(Tick(c)) THEN Res(Tick(Tick(c)), "Err", <<idx>>)
    ELSE LET created == Sst_create(c.tables[idx + 1], c.dir)
             sstable_iter == IF seek_key # <<>>
                             THEN Sst_seek(created, seek_key[1])
                             ELSE Sst_rewind(created)
         IN  Res([take_sstable_iter(Tick(Tick(c))) EXCEPT
                      !.sstable_iter = <<sstable_iter>>, !.cur_idx = idx],
                 "Ok", <<idx>>)

Then(r1, r2) == Res(r2.it, r2.ret, r1.io \o r2.io)

Concat_rewind(c) == Concat_seek_idx(c, 0, <<>>)

\* the backward predicate comparing the left end of the key range
ConcatInner_seek_pred_backward_left(dir, key_range, key) ==
    IF dir = Forward
    THEN compare_key(key_range.left, key) \in {"Less", "Equal"}
    ELSE compare_key(key_range.left, key) \in {"Greater", "Equal"}

\* the partition predicate on the end of the key range the scan reaches last
ConcatInner_seek_pred_far_end(dir, key_range, key) ==
    IF dir = Forward
    THEN compare_key(key_range.right, key) \in {"Less", "Equal"}
    ELSE compare_key(key_range.left, key) \in {"Greater", "Equal"}

\* ConcatIteratorInner::seek: the partition predicate by direction
ConcatInner_seek_pred(dir, key_range, key) ==
    IF dir = Forward
    THEN compare_key(key_range.left, key) \in {"Less", "Equal"}
    ELSE compare_key(key_range.right, key) \in {"Greater", "Equal"}

\* ConcatSstableIterator::seek: the partition predicate
ConcatCompact_seek_pred(key_range, key) ==
    compare_key(key_range.left, key) \in {"Less", "Equal"}

\* seek that stays on the sought table when the key is past its last entry
Concat_seek_tail_no_advance(c, table_idx, key) == Concat_seek_idx(c, table_idx, <<key>>)

Concat_seek_tail(c, table_idx, key) ==
    LET r1 == Concat_seek_idx(c, table_idx, <<key>>)
    IN  IF r1.ret = "Err" THEN r1
        ELSE IF ~Concat_is_valid(r1.it)
        THEN Then(r1, Concat_seek_idx(r1.it, table_idx + 1, <<>>))
        ELSE r1

ConcatInner_seek(c, key) ==
    LET holds == [i \in 1..Len(c.tables) |->
                     ConcatInner_seek_pred(c.dir, c.key_ranges[i], key)]
        table_idx == saturating_sub(partition_point(holds), 1)
    IN  Concat_seek_tail(c, table_idx, key)

ConcatCompact_seek(c, key) ==
    LET holds == [i \in 1..Len(c.tables) |-> ConcatCompact_seek_pred(c.key_ranges[i], key)]
        table_idx == saturating_sub(partition_point(holds), 1)
    IN  Concat_seek_tail(c, table_idx, key)

\* poll_next moving to the next SST itself when the current one is exhausted
ConcatInner_poll_next_loads(c) ==
    LET r == IF Fails(c) THEN [it |-> Sst_failed(c.sstable_iter[1]), ret |-> "Err"]
             ELSE Sst_poll_next(c.sstable_iter[1])
        c1 == [Tick(c) EXCEPT !.sstable_iter = <<r.it>>]
    IN  IF r.ret = "Err" THEN Res(c1, "Err", <<>>)
        ELSE IF r.ret = "Ok"
        THEN IF Sst_is_valid(r.it)
             THEN Res(c1, "Ok", <<>>)
             ELSE Concat_seek_idx(c1, c1.cur_idx + 1, <<>>)
        ELSE Res([c1 EXCEPT !.pending_stage = "AwaitNext"], "Pending", <<>>)

\* ConcatIteratorInner::poll_next
ConcatInner_poll_next(c) ==
    LET r == IF Fails(c) THEN [it |-> Sst_failed(c.sstable_iter[1]), ret |-> "Err"]
             ELSE Sst_poll_next(c.sstable_iter[1])
        c1 == [Tick(c) EXCEPT !.sstable_iter = <<r.it>>]
    IN  IF r.ret = "Err" THEN Res(c1, "Err", <<>>)
        ELSE IF r.ret = "Ok"
        THEN IF Sst_is_valid(r.it)
             THEN Res(c1, "Ok", <<>>)
             ELSE Res([c1 EXCEPT !.pending_stage = "AwaitSeekIdx"], "Pending", <<>>)
        ELSE Res([c1 EXCEPT !.pending_stage = "AwaitNext"], "Pending", <<>>)

\* await_next moving to the next SST after the child's await_next, whether or
\* not the child is valid
ConcatInner_await_next_always_advances(c) ==
    LET r == CASE c.pending_stage = "None" -> Res(c, "Ok", <<>>)
               [] c.pending_stage = "AwaitNext" ->
                    LET s == IF Fails(c) THEN Sst_failed(c.sstable_iter[1])
                             ELSE Sst_await_next(c.sstable_iter[1])
                        c1 == [Tick(c) EXCEPT !.sstable_iter = <<s>>]
                    IN  IF Fails(c) THEN Res(c1, "Err", <<>>)
                        ELSE Concat_seek_idx(c1, c1.cur_idx + 1, <<>>)
               [] c.pending_stage = "AwaitSeekIdx" ->
                    Concat_seek_idx(c, c.cur_idx + 1, <<>>)
    IN  Res([r.it EXCEPT !.pending_stage = "None"], r.ret, r.io)

\* ConcatIteratorInner::await_next
ConcatInner_await_next(c) ==
    LET r == CASE c.pending_stage = "None" -> Res(c, "Ok", <<>>)
               [] c.pending_stage = "AwaitNext" ->
                    LET s == IF Fails(c) THEN Sst_failed(c.sstable_iter[1])
                             ELSE Sst_await_next(c.sstable_iter[1])
                        c1 == [Tick(c) EXCEPT !.sstable_iter = <<s>>]
                    IN  IF Fails(c) THEN Res(c1, "Err", <<>>)
                        ELSE IF Sst_is_valid(s) THEN Res(c1, "Ok", <<>>)
                        ELSE Concat_seek_idx(c1, c1.cur_idx + 1, <<>>)
               [] c.pending_stage = "AwaitSeekIdx" ->
                    Concat_seek_idx(c, c.cur_idx + 1, <<>>)
    IN  Res([r.it EXCEPT !.pending_stage = "None"], r.ret, r.io)

\* poll_next reporting the step off the end of the SST as done
ConcatCompact_poll_next_ready_at_end(c) ==
    LET s == IF Fails(c) THEN Sst_failed(c.sstable_iter[1])
             ELSE Sst_next_for_compact(c.sstable_iter[1])
        c1 == [Tick(c) EXCEPT !.sstable_iter = <<s>>]
    IN  IF Fails(c) THEN Res(c1, "Err", <<>>) ELSE Res(c1, "Ok", <<>>)

\* ConcatSstableIterator::poll_next
ConcatCompact_poll_next(c) ==
    LET s == IF Fails(c) THEN Sst_failed(c.sstable_iter[1])
             ELSE Sst_next_for_compact(c.sstable_iter[1])
        c1 == [Tick(c) EXCEPT !.sstable_iter = <<s>>]
    IN  IF Fails(c) THEN Res(c1, "Err", <<>>)
        ELSE IF Sst_is_valid(s) THEN Res(c1, "Ok", <<>>)
        ELSE Res([c1 EXCEPT !.is_pending = TRUE], "Pending", <<>>)

\* ConcatSstableIterator::await_next
ConcatCompact_await_next(c) ==
    IF c.is_pending
    THEN LET r == Concat_seek_idx(c, c.cur_idx + 1, <<>>)
         IN  IF r.ret = "Err" THEN r
             ELSE Res([r.it EXCEPT !.is_pending = FALSE], r.ret, r.io)
    ELSE Res(c, "Ok", <<>>)

----------------------------------------------------------------------------
(* The HummockIterator protocol, dispatched on the concrete type the way   *)
(* HummockIteratorUnion forwards to its active variant.                    *)

OnSst(c, s) == [c EXCEPT !.sstable_iter = <<s>>]

is_valid(c) == Concat_is_valid(c)
key(c) == Concat_key(c)
value(c) == Concat_value(c)

poll_next(c) ==
    CASE c.kind = ConcatInner -> ConcatInner_poll_next(c)
      [] c.kind = ConcatCompact -> ConcatCompact_poll_next(c)
      [] c.kind = SstIter ->
            IF Fails(c) THEN Res(OnSst(Tick(c), Sst_failed(c.sstable_iter[1])), "Err", <<>>)
            ELSE LET r == Sst_poll_next(c.sstable_iter[1])
                 IN  Res(OnSst(Tick(c), r.it), r.ret, <<>>)

await_next(c) ==
    CASE c.kind = ConcatInner -> ConcatInner_await_next(c)
      [] c.kind = ConcatCompact -> ConcatCompact_await_next(c)
      [] c.kind = SstIter ->
            IF Fails(c) THEN Res(OnSst(Tick(c), Sst_failed(c.sstable_iter[1])), "Err", <<>>)
            ELSE Res(OnSst(Tick(c), Sst_await_next(c.sstable_iter[1])), "Ok", <<>>)

\* next(): poll_next, and await_next when it is Pending
next(c) ==
    LET r == poll_next(c)
    IN  IF r.ret = "Pending" THEN Then(r, await_next(r.it)) ELSE r

rewind(c) ==
    IF c.kind = SstIter
    THEN IF Fails(c) THEN Res(OnSst(Tick(c), Sst_failed(c.sstable_iter[1])), "Err", <<>>)
         ELSE Res(OnSst(Tick(c), Sst_rewind(c.sstable_iter[1])), "Ok", <<>>)
    ELSE Concat_rewind(c)

seek(c, k) ==
    CASE c.kind = ConcatInner -> ConcatInner_seek(c, k)
      [] c.kind = ConcatCompact -> ConcatCompact_seek(c, k)
      [] c.kind = SstIter ->
            IF Fails(c) THEN Res(OnSst(Tick(c), Sst_failed(c.sstable_iter[1])), "Err", <<>>)
            ELSE Res(OnSst(Tick(c), Sst_seek(c.sstable_iter[1], k)), "Ok", <<>>)

HasPending(c) == c.pending_stage # "None" \/ c.is_pending

\* collect_local_statistic of the concat iterators: add the own counters
Concat_collect_local_statistic(c, stats) == stats + c.stats

collect_local_statistic(c, stats) ==
    IF c.kind = SstIter
    THEN Sst_collect_local_statistic(c.sstable_iter[1], stats)
    ELSE Concat_collect_local_statistic(c, stats)

\* what an iterator has counted: its own counters and those of the SST
\* iterator it holds
Counted(c) ==
    IF c.kind = SstIter THEN c.sstable_iter[1].stats
    ELSE c.stats + (IF c.sstable_iter # <<>> THEN c.sstable_iter[1].stats ELSE 0)

----------------------------------------------------------------------------
(* HummockIteratorUnion: one of four variants around an iterator. Every    *)
(* method matches on the variant and each arm forwards to the iterator in  *)
(* it; collect_local_statistic is not among the methods the impl defines.  *)

Variants == {"First", "Second", "Third", "Fourth"}

Union(variant, c) == [variant |-> variant, iter |-> c]

\* the union and the result after the arm's call returned r
Forwarded(u, r) == Res([u EXCEPT !.iter = r.it], r.ret, r.io)

Union_next(u) == CASE u.variant \in Variants -> Forwarded(u, next(u.iter))
Union_poll_next(u) == CASE u.variant \in Variants -> Forwarded(u, poll_next(u.iter))
Union_await_next(u) == CASE u.variant \in Variants -> Forwarded(u, await_next(u.iter))
Union_key(u) == CASE u.variant \in Variants -> key(u.iter)
Union_value(u) == CASE u.variant \in Variants -> value(u.iter)
Union_is_valid(u) == CASE u.variant \in Variants -> is_valid(u.iter)
Union_rewind(u) == CASE u.variant \in Variants -> Forwarded(u, rewind(u.iter))
Union_seek(u, k) == CASE u.variant \in Variants -> Forwarded(u, seek(u.iter, k))

\* the trait's default body: the sink is left as it is
Union_collect_local_statistic(u, stats) == stats

----------------------------------------------------------------------------
(* Inputs: runs of SSTs over a small key universe, and the scenarios of    *)
(* the specification.                                                      *)

AllKeys == {FullKey(u, e) : u \in UserKeys, e \in Epochs}
NoKey == FullKey(0, 0)

\* keys sought: the universe, a key before it, one after it, and "g"
SeekKeys == AllKeys \cup {FullKey(0, 1), FullKey(3, 1), FullKey(7, 1)}

MinKey(S) == CHOOSE k \in S : \A j \in S : KeyLe(k, j)

RECURSIVE SortKeys(_)
SortKeys(S) == IF S = {} THEN <<>> ELSE <<MinKey(S)>> \o SortKeys(S \ {MinKey(S)})

\* every way of cutting a sorted key sequence into consecutive non-empty SSTs
RECURSIVE Splits(_)
Splits(s) ==
    IF s = <<>> THEN {<<>>}
    ELSE UNION {{<<SubSeq(s, 1, i)>> \o r : r \in Splits(SubSeq(s, i + 1, Len(s)))}
                : i \in 1..Len(s)}

\* key runs: ascending sequences of SSTs, each an ascending sequence of keys
KeyRuns == UNION {Splits(SortKeys(S)) :
                  S \in {T \in SUBSET AllKeys : Cardinality(T) <= MaxTotalKeys}}

RECURSIVE RunSize(_)
RunSize(run) == IF run = <<>> THEN 0 ELSE Len(Head(run)) + RunSize(Tail(run))

ChildData(c) == <<"a", "b", "c", "d">>[c]

\* the value child c holds for key k
ValueFor(c, k) == IF (c + k.uk + k.epoch) % 3 = 0 THEN Delete ELSE Put(ChildData(c))

WithValues(c, run) ==
    [i \in 1..Len(run) |->
        [j \in 1..Len(run[i]) |-> Entry(run[i][j], ValueFor(c, run[i][j]))]]

Reverse(s) == [i \in 1..Len(s) |-> s[Len(s) + 1 - i]]

\* a run laid out for its direction: ascending forward, descending backward
Arrange(dir, run) == IF dir = Forward THEN run ELSE Reverse(run)

\* scenario 1: SST A [k001, k002, k003]@1, SST B [k004, k005]@1
TwoSstRun ==
    << <<Entry(FullKey(1, 1), Put("a")), Entry(FullKey(2, 1), Put("a")),
         Entry(FullKey(3, 1), Put("a"))>>,
       <<Entry(FullKey(4, 1), Put("a")), Entry(FullKey(5, 1), Put("a"))>> >>

\* scenario 4: SSTs [a, b] and [m, n]  (a = 1, b = 2, g = 7, m = 13, n = 14)
HoleRun ==
    << <<Entry(FullKey(1, 1), Put("a")), Entry(FullKey(2, 1), Put("a"))>>,
       <<Entry(FullKey(13, 1), Put("a")), Entry(FullKey(14, 1), Put("a"))>> >>

\* scenario 2: child X = [k1@5 -> v5, k2@3 -> v3], child Y = [k1@7 -> v7, k3@1 -> v1]
DedupX == << <<Entry(FullKey(1, 5), Put("v5")), Entry(FullKey(2, 3), Put("v3"))>> >>
DedupY == << <<Entry(FullKey(1, 7), Put("v7")), Entry(FullKey(3, 1), Put("v1"))>> >>
DedupChildren == <<DedupX, DedupY>>

\* scenario 3: k@9 -> Delete, k@5 -> Put("old"), in one child or in two
TombstoneOne == << << <<Entry(FullKey(1, 9), Delete), Entry(FullKey(1, 5), Put("old"))>> >> >>
TombstoneTwo == << << <<Entry(FullKey(1, 9), Delete)>> >>,
                   << <<Entry(FullKey(1, 5), Put("old"))>> >> >>
TombstoneTwoSwapped == << << <<Entry(FullKey(1, 5), Put("old"))>> >>,
                          << <<Entry(FullKey(1, 9), Delete)>> >> >>

ScenarioChildren == {DedupChildren, TombstoneOne, TombstoneTwo, TombstoneTwoSwapped}

\* the runs a concat iterator is driven over on its own
ConcatRuns == {WithValues(1, r) : r \in KeyRuns} \cup {TwoSstRun, HoleRun}

\* the (kind, direction) pairs that exist: ConcatSstableIterator is Forward only
ConcatTypes == {<<ConcatInner, Forward>>, <<ConcatInner, Backward>>,
                <<ConcatCompact, Forward>>}
ChildTypes == ConcatTypes \cup {<<SstIter, Forward>>}

\* the children of a merge: NumChildren runs holding at most MaxTotalKeys keys
RECURSIVE SumSizes(_, _)
SumSizes(f, n) == IF n = 0 THEN 0 ELSE RunSize(f[n]) + SumSizes(f, n - 1)

GeneratedChildrenUpTo(total) ==
    {[c \in 1..NumChildren |-> WithValues(c, f[c])] :
        f \in {g \in [1..NumChildren -> KeyRuns] : SumSizes(g, NumChildren) <= total}}

GeneratedChildren == GeneratedChildrenUpTo(MaxTotalKeys)

\* a bare SstableIterator child iterates exactly one SST
FitsKind(kind, children) ==
    kind = SstIter => \A c \in 1..Len(children) : Len(children[c]) = 1

----------------------------------------------------------------------------
(* The merge iterator (merge_inner.rs).  The BinaryHeap is the set of the  *)
(* child ids it holds and peek() is a greatest node under Node's Ord; the  *)
(* LinkedList of unused iterators is the set of the child ids it holds.    *)

then_with(o1, o2) == IF o1 = "Equal" THEN o2 ELSE o1
usize_cmp(a, b) == IF a < b THEN "Less" ELSE IF a > b THEN "Greater" ELSE "Equal"

\* Node<UnorderedNodeExtra> ordered without the min-heap reversal
Node_partial_cmp_unordered_unreversed(dir, self, other) ==
    IF dir = Forward
    THEN compare_key(key(self.iter), key(other.iter))
    ELSE compare_key(key(other.iter), key(self.iter))

\* PartialOrd for Node<UnorderedNodeExtra>
Node_partial_cmp_unordered(dir, self, other) ==
    IF dir = Forward
    THEN compare_key(key(other.iter), key(self.iter))
    ELSE compare_key(key(self.iter), key(other.iter))

\* Node<OrderedNodeExtra> with the tie-breaker taken the other way round
Node_partial_cmp_ordered_tie_swapped(dir, self, other) ==
    IF dir = Forward
    THEN then_with(compare_key(key(other.iter), key(self.iter)),
                   usize_cmp(self.extra_order_info, other.extra_order_info))
    ELSE then_with(compare_key(key(self.iter), key(other.iter)),
                   usize_cmp(other.extra_order_info, self.extra_order_info))

\* Node<OrderedNodeExtra> ordered without the min-heap reversal
Node_partial_cmp_ordered_unreversed(dir, self, other) ==
    IF dir = Forward
    THEN then_with(compare_key(key(self.iter), key(other.iter)),
                   usize_cmp(other.extra_order_info, self.extra_order_info))
    ELSE then_with(compare_key(key(other.iter), key(self.iter)),
                   usize_cmp(self.extra_order_info, other.extra_order_info))

\* PartialOrd for Node<OrderedNodeExtra>
Node_partial_cmp_ordered(dir, self, other) ==
    IF dir = Forward
    THEN then_with(compare_key(key(other.iter), key(self.iter)),
                   usize_cmp(other.extra_order_info, self.extra_order_info))
    ELSE then_with(compare_key(key(self.iter), key(other.iter)),
                   usize_cmp(self.extra_order_info, other.extra_order_info))

Node_cmp(t, self, other) ==
    IF t.ordered THEN Node_partial_cmp_ordered(t.dir, self, other)
    ELSE Node_partial_cmp_unordered(t.dir, self, other)

\* order indexes handed out from the last input to the first
extra_order_info_reversed(t, c) == IF t.ordered THEN 100 - c ELSE 0

\* OrderedMergeIteratorInner::new / UnorderedMergeIteratorInner::new: the order
\* index is the position in the input (from 0); the unordered node carries ()
extra_order_info(t, c) == IF t.ordered THEN c - 1 ELSE 0

NodeOf(t, its, c) == [iter |-> its[c], extra_order_info |-> extra_order_info(t, c)]

\* BinaryHeap::peek: the nodes no other node of the heap is greater than
Peeks(t, its, h) ==
    IF h = {} THEN {0}
    ELSE {c \in h : \A d \in h : Node_cmp(t, NodeOf(t, its, c), NodeOf(t, its, d)) # "Less"}

\* the merge iterator's fields
M(its, h, u, ltk) ==
    [iters |-> its, heap |-> h, unused_iters |-> u, last_table_key |-> ltk, ret |-> "Ok",
     failed |-> 0]

\* reset_heap clearing the heap without keeping its nodes
reset_heap_clears(m) == [m EXCEPT !.heap = {}]

\* reset_heap
reset_heap(m) == [m EXCEPT !.unused_iters = m.unused_iters \cup m.heap, !.heap = {}]

\* build_heap
build_heap(m) ==
    [m EXCEPT !.heap = {c \in m.unused_iters : is_valid(m.iters[c])},
              !.unused_iters = {c \in m.unused_iters : ~is_valid(m.iters[c])}]

\* rewind without reset_heap: the children still in the heap are not rewound
Merge_rewind_no_reset(m) ==
    LET m2 == [m EXCEPT !.iters = [c \in DOMAIN m.iters |->
                    IF c \in m.unused_iters THEN rewind(m.iters[c]).it ELSE m.iters[c]]]
    IN  [m2 EXCEPT !.heap = m.heap \cup {c \in m.unused_iters : is_valid(m2.iters[c])},
                   !.unused_iters = {c \in m.unused_iters : ~is_valid(m2.iters[c])}]

\* MergeIteratorInner::rewind
Merge_rewind(m) ==
    LET m1 == reset_heap(m)
        m2 == [m1 EXCEPT !.iters = [c \in DOMAIN m1.iters |->
                    IF c \in m1.unused_iters THEN rewind(m1.iters[c]).it ELSE m1.iters[c]]]
    IN  build_heap(m2)

\* the end of rewind / seek that builds the heap from the children that are
\* valid although a child returned an error
Merge_joined_builds_heap(m, rs, done) ==
    LET errs == {c \in m.unused_iters : rs[c].ret = "Err"}
        m2 == [m EXCEPT !.iters = [c \in DOMAIN m.iters |->
                   IF c \in m.unused_iters /\ (c \in errs \/ c \in done \/ errs = {})
                   THEN rs[c].it ELSE m.iters[c]]]
    IN  IF errs = {} THEN build_heap(m2)
        ELSE [build_heap(m2) EXCEPT !.ret = "Err", !.failed = CHOOSE c \in errs : TRUE]

\* the end of rewind / seek after reset_heap: try_join_all(..).await? over
\* the results rs of the listed children's calls, then build_heap. When a
\* child returned an error the call returns it at once: the children in done
\* have completed their call by then, the others are left as they were, and
\* build_heap is not reached.
Merge_joined(m, rs, done) ==
    LET errs == {c \in m.unused_iters : rs[c].ret = "Err"}
        m2 == [m EXCEPT !.iters = [c \in DOMAIN m.iters |->
                   IF c \in m.unused_iters /\ (c \in errs \/ c \in done \/ errs = {})
                   THEN rs[c].it ELSE m.iters[c]]]
    IN  IF errs = {} THEN build_heap(m2)
        ELSE [m2 EXCEPT !.ret = "Err", !.failed = CHOOSE c \in errs : TRUE]

\* MergeIteratorInner::rewind with children whose rewind may fail
Merge_rewind_joined(m, done) ==
    LET m1 == reset_heap(m)
    IN  Merge_joined(m1, [c \in DOMAIN m1.iters |-> rewind(m1.iters[c])], done)

\* MergeIteratorInner::seek with children whose seek may fail
Merge_seek_joined(m, k, done) ==
    LET m1 == reset_heap(m)
    IN  Merge_joined(m1, [c \in DOMAIN m1.iters |-> seek(m1.iters[c], k)], done)

\* seek without reset_heap: the children still in the heap are not sought
Merge_seek_no_reset(m, k) ==
    LET m2 == [m EXCEPT !.iters = [c \in DOMAIN m.iters |->
                    IF c \in m.unused_iters THEN seek(m.iters[c], k).it ELSE m.iters[c]]]
    IN  [m2 EXCEPT !.heap = m.heap \cup {c \in m.unused_iters : is_valid(m2.iters[c])},
                   !.unused_iters = {c \in m.unused_iters : ~is_valid(m2.iters[c])}]

\* MergeIteratorInner::seek
Merge_seek(m, k) ==
    LET m1 == reset_heap(m)
        m2 == [m1 EXCEPT !.iters = [c \in DOMAIN m1.iters |->
                    IF c \in m1.unused_iters THEN seek(m1.iters[c], k).it ELSE m1.iters[c]]]
    IN  build_heap(m2)

\* one pass of the body of next_inner on the heap top `node`: advance it, and
\* pop it into unused_iters when it is no longer valid
\* the error handed back with the other children left in the heap
AdvanceTop_error_keeps_heap(m, node) ==
    LET r == next(m.iters[node])
        m1 == [m EXCEPT !.iters[node] = r.it]
    IN  IF r.ret = "Err"
        THEN [m1 EXCEPT !.heap = m.heap \ {node}, !.ret = r.ret, !.failed = node]
        ELSE IF ~is_valid(r.it)
        THEN [m1 EXCEPT !.heap = m.heap \ {node}, !.unused_iters = m.unused_iters \cup {node}]
        ELSE m1

\* when the child returns an error: PeekMut::pop(node), self.heap.clear(),
\* return Err(e); the popped node and the cleared nodes are dropped
AdvanceTop(m, node) ==
    LET r == next(m.iters[node])
        m1 == [m EXCEPT !.iters[node] = r.it]
    IN  IF r.ret = "Err"
        THEN [m1 EXCEPT !.heap = {}, !.ret = r.ret, !.failed = node]
        ELSE IF ~is_valid(r.it)
        THEN [m1 EXCEPT !.heap = m.heap \ {node}, !.unused_iters = m.unused_iters \cup {node}]
        ELSE m1

\* the loop comparing user keys only, so that older epochs are stepped over
RECURSIVE Ordered_loop_user_key(_, _, _)
Ordered_loop_user_key(t, m, top_key) ==
    IF m.heap = {} \/ m.ret = "Err" THEN m
    ELSE LET node == CHOOSE c \in Peeks(t, m.iters, m.heap) : TRUE
         IN  IF key(m.iters[node]).uk = top_key.uk
             THEN Ordered_loop_user_key(t, AdvanceTop(m, node), top_key)
             ELSE m

\* the loop of OrderedMergeIteratorInner::next_inner
RECURSIVE Ordered_loop(_, _, _)
Ordered_loop(t, m, top_key) ==
    IF m.heap = {} \/ m.ret = "Err" THEN m
    ELSE LET node == CHOOSE c \in Peeks(t, m.iters, m.heap) : TRUE
         IN  IF key(m.iters[node]) = top_key
             THEN Ordered_loop(t, AdvanceTop(m, node), top_key)
             ELSE m

\* OrderedMergeIteratorInner::next_inner
Ordered_next_inner(t, m, node) ==
    LET top_key == key(m.iters[node])
    IN  Ordered_loop(t, [m EXCEPT !.last_table_key = <<top_key>>], top_key)

\* next_inner that also steps every other child standing on the same key
Unordered_next_inner_dedup(m, node) ==
    Ordered_loop([ordered |-> FALSE, dir |-> m.iters[node].dir], m, key(m.iters[node]))

\* UnorderedMergeIteratorInner::next_inner
Unordered_next_inner(m, node) == AdvanceTop(m, node)

\* MergeIteratorInner::next
Merge_next(t, m, node) ==
    IF t.ordered THEN Ordered_next_inner(t, m, node) ELSE Unordered_next_inner(m, node)

\* MergeIteratorInner::is_valid / key / value, on the node peek() returns
Merge_is_valid(its, node) == node # 0 /\ is_valid(its[node])

\* MergeIteratorInner defines no collect_local_statistic: the trait's default,
\* which leaves the sink as it is
Merge_collect_local_statistic(its, stats) == stats
Merge_key(its, node) == key(its[node])
Merge_value(its, node) == value(its[node])

----------------------------------------------------------------------------
(* Calls on an iterator that is not valid.  The trait documents key, value *)
(* and next as panicking then; the concat and merge iterators panic        *)
(* themselves when they hold no child (expect), and hand the call to the   *)
(* child otherwise.                                                        *)

\* SstableIterator: key / value / next / poll_next on an invalid iterator
Sst_panics(s) == ~Sst_is_valid(s)

\* self.sstable_iter.as_ref().expect("no table iter").key() / .value()
Concat_key_panics(c) == c.sstable_iter = <<>> \/ Sst_panics(c.sstable_iter[1])
Concat_value_panics(c) == c.sstable_iter = <<>> \/ Sst_panics(c.sstable_iter[1])

\* poll_next: self.sstable_iter.as_mut().expect("no table iter"), then the
\* child's poll_next / next_for_compact
Concat_poll_next_panics(c) == c.sstable_iter = <<>> \/ Sst_panics(c.sstable_iter[1])

\* key() that panics only where the child under the heap top does
Merge_key_panics_child_only(its, h, node) == h # {} /\ Concat_key_panics(its[node])

\* self.heap.peek().expect("no inner iter").iter.key() / .value()
Merge_key_panics(its, h, node) == h = {} \/ Concat_key_panics(its[node])
Merge_value_panics(its, h, node) == h = {} \/ Concat_value_panics(its[node])

\* next_inner: self.heap.peek().expect("no inner iter") (ordered),
\* self.heap.peek_mut().expect("no inner iter") (unordered)
Merge_next_panics(its, h, node) == h = {} \/ Concat_poll_next_panics(its[node])

----------------------------------------------------------------------------
(* The driver of a concat iterator on its own *)

\* most fallible calls one call of the protocol makes
MaxFailAt == 4

NoStart == [op |-> "none", key |-> NoKey]
NoneGot == [tag |-> "None"]
Panic == [tag |-> "Panic"]

\* the program runs until a call panics
Running == ret # "Panic" /\ mret # "Panic" /\ got # Panic

\* the entry an iterator stands on, appended to what was seen before
Observe(c, seen) ==
    IF is_valid(c) THEN Append(seen, Entry(key(c), value(c))) ELSE seen

\* no dashboard and no frontend session
NoService == [tag |-> "None"]

IdleServices ==
    /\ srv = NoService
    /\ session = NoService

IdleMerge ==
    /\ iters = <<>>
    /\ heap = {}
    /\ top = 0
    /\ unused_iters = {}
    /\ last_table_key = <<>>
    /\ mstart = NoStart
    /\ memitted = <<>>
    /\ mret = "None"
    /\ failed = 0

\* what the runs are set up with: whether the SST iterators count, and the
\* read option prefetch
Plain == [stats |-> FALSE, prefetch |-> FALSE]

InitConcatOver(runs, settings) ==
    /\ \E ty \in ConcatTypes, run \in runs, eager \in BOOLEAN, o \in settings :
          /\ eager => ty[1] = ConcatInner
          /\ cfg = [root |-> "concat", ordered |-> FALSE, dir |-> ty[2], kind |-> ty[1],
                    stats |-> o.stats, prefetch |-> o.prefetch, eager_end |-> eager]
          /\ it = Concat_new(ty[1], ty[2], Arrange(ty[2], run))
    /\ ret = "None"
    /\ start = NoStart
    /\ emitted = <<>>
    /\ loads = <<>>
    /\ calls = <<>>
    /\ got = NoneGot
    /\ last = "new"
    /\ IdleMerge
    /\ IdleServices

InitConcat == InitConcatOver(ConcatRuns, {Plain})

\* the iterator and the result of a call r, after what was seen and loaded
ConcatReturns(r, seen, io) ==
    /\ it' = Armed(r.it, 0)
    /\ ret' = r.ret
    /\ emitted' = Observe(r.it, seen)
    /\ loads' = io \o r.io
    /\ calls' = [i \in 1..Len(r.io) |-> Concat_store_call(it.kind, r.io[i])]
    /\ got' = NoneGot

\* rewind(), its f-th fallible call failing (f = 0: none)
ConcatRewindAt(f) ==
    /\ Running
    /\ last' = "rewind"
    /\ cfg.root = "concat"
    /\ ConcatReturns(rewind(Armed(it, f)), <<>>, <<>>)
    /\ start' = [op |-> "rewind", key |-> NoKey]
    /\ UNCHANGED <<cfg, serviceVars, mergeVars>>

ConcatRewind == ConcatRewindAt(0)

ConcatSeekAt(k, f) ==
    /\ Running
    /\ last' = "seek"
    /\ cfg.root = "concat"
    /\ ConcatReturns(seek(Armed(it, f), k), <<>>, <<>>)
    /\ start' = [op |-> "seek", key |-> k]
    /\ UNCHANGED <<cfg, serviceVars, mergeVars>>

ConcatSeek(k) == ConcatSeekAt(k, 0)

\* next(), called on a valid iterator
ConcatNextAt(f) ==
    /\ Running
    /\ last' = "next"
    /\ cfg.root = "concat"
    /\ is_valid(it)
    /\ ConcatReturns(next(Armed(it, f)), emitted, loads)
    /\ UNCHANGED <<cfg, serviceVars, start, mergeVars>>

ConcatNext == ConcatNextAt(0)

\* poll_next(), called on a valid iterator
ConcatPollNextAt(f) ==
    /\ Running
    /\ last' = "poll_next"
    /\ cfg.root = "concat"
    /\ is_valid(it)
    /\ ConcatReturns(poll_next(Armed(it, f)), emitted, loads)
    /\ UNCHANGED <<cfg, serviceVars, start, mergeVars>>

ConcatPollNext == ConcatPollNextAt(0)

\* await_next(), called when the previous poll_next returned Pending
ConcatAwaitNextAt(f) ==
    /\ Running
    /\ last' = "await_next"
    /\ cfg.root = "concat"
    /\ ret = "Pending"
    /\ ConcatReturns(await_next(Armed(it, f)), emitted, loads)
    /\ UNCHANGED <<cfg, serviceVars, start, mergeVars>>

ConcatAwaitNext == ConcatAwaitNextAt(0)

\* await_next() called once more after it returned an error
ConcatAwaitNextAgain ==
    /\ Running
    /\ last = "await_next" /\ ret = "Err"
    /\ last' = "await_next"
    /\ cfg.root = "concat"
    /\ ConcatReturns(await_next(it), emitted, loads)
    /\ UNCHANGED <<cfg, serviceVars, start, mergeVars>>

\* next() called on an iterator that is not valid
ConcatNextInvalid ==
    /\ Running
    /\ last' = "next"
    /\ cfg.root = "concat"
    /\ ~is_valid(it)
    /\ ret' = IF Concat_poll_next_panics(it) THEN "Panic" ELSE "Ok"
    /\ got' = NoneGot
    /\ UNCHANGED <<it, start, emitted, loads, calls, cfg, serviceVars, mergeVars>>

\* key() and value(), called in any state
ConcatKey ==
    /\ Running
    /\ cfg.root = "concat"
    /\ got' = IF Concat_key_panics(it) THEN Panic ELSE [tag |-> "Key", key |-> key(it)]
    /\ UNCHANGED <<concatVars, cfg, serviceVars, mergeVars, last>>

ConcatValue ==
    /\ Running
    /\ cfg.root = "concat"
    /\ got' = IF Concat_value_panics(it) THEN Panic
              ELSE [tag |-> "Value", value |-> value(it)]
    /\ UNCHANGED <<concatVars, cfg, serviceVars, mergeVars, last>>

NextConcat ==
    \/ ConcatRewind
    \/ \E k \in SeekKeys : ConcatSeek(k)
    \/ ConcatNext
    \/ ConcatPollNext
    \/ ConcatAwaitNext

\* the protocol calls with a store and SST iterators that may fail
NextConcatFallibleOver(keys) ==
    \/ \E f \in 0..MaxFailAt : ConcatRewindAt(f)
    \/ \E k \in keys, f \in 0..MaxFailAt : ConcatSeekAt(k, f)
    \/ \E f \in 0..MaxFailAt : ConcatNextAt(f)
    \/ \E f \in 0..MaxFailAt : ConcatPollNextAt(f)
    \/ \E f \in 0..MaxFailAt : ConcatAwaitNextAt(f)

NextConcatFallible == NextConcatFallibleOver(SeekKeys)

\* the keys sought where the calls outside the contract are made too: one
\* before every key, one inside
FewSeekKeys == {FullKey(0, 1), FullKey(2, 2)}

\* those, and the calls the contract does not cover
NextConcatAny ==
    \/ NextConcatFallibleOver(FewSeekKeys)
    \/ ConcatAwaitNextAgain
    \/ ConcatNextInvalid
    \/ ConcatKey
    \/ ConcatValue

\* next(), rewind() and seek() only, next() on a valid iterator
NextConcatCalls ==
    \/ \E f \in 0..MaxFailAt : ConcatRewindAt(f)
    \/ \E k \in SeekKeys, f \in 0..MaxFailAt : ConcatSeekAt(k, f)
    \/ \E f \in 0..MaxFailAt : ConcatNextAt(f)

\* rewind(), seek() and next() only, none failing, next() on a valid iterator
NextConcatPlainCalls ==
    \/ ConcatRewind
    \/ \E k \in SeekKeys : ConcatSeek(k)
    \/ ConcatNext

\* the runs with one SST whose key range is marked inf, its left and right
\* either those of the table or empty; the empty ones only where the
\* predicate of seek stays partitioned over the run (an empty left at the
\* front of a forward run, an empty right at the back of a backward run)
InitConcatInf ==
    /\ \E ty \in ConcatTypes, run \in ConcatRuns, i \in 1..MaxTotalKeys, empty \in BOOLEAN :
          /\ i <= Len(run)
          /\ empty => i = IF ty[2] = Forward THEN 1 ELSE Len(run)
          /\ cfg = [root |-> "concat", ordered |-> FALSE, dir |-> ty[2], kind |-> ty[1],
                    stats |-> FALSE, prefetch |-> FALSE, eager_end |-> FALSE]
          /\ LET c == Concat_new(ty[1], ty[2], Arrange(ty[2], run))
                 r == c.key_ranges[i]
             IN  it = [c EXCEPT !.key_ranges[i] =
                          IF empty THEN KeyRange(NoKey, NoKey, TRUE)
                          ELSE KeyRange(r.left, r.right, TRUE)]
    /\ ret = "None"
    /\ start = NoStart
    /\ emitted = <<>>
    /\ loads = <<>>
    /\ calls = <<>>
    /\ got = NoneGot
    /\ last = "new"
    /\ IdleMerge
    /\ IdleServices

\* the runs read with and without the read option prefetch
Prefetching == [stats |-> FALSE, prefetch |-> TRUE]
InitConcatPrefetch == InitConcatOver(ConcatRuns, {Plain, Prefetching})

\* the runs whose SST iterators count the blocks they load
Counting == [stats |-> TRUE, prefetch |-> FALSE]
InitConcatCounting == InitConcatOver(ConcatRuns, {Counting})

\* collect_local_statistic(&self, sink): the sink is a fresh one, or the one
\* the call right before has just filled
ConcatCollect ==
    /\ Running
    /\ cfg.root = "concat"
    /\ LET again == got.tag = "Stats"
           before == IF again THEN got.sink ELSE 0
       IN  got' = [tag |-> "Stats", again |-> again, before |-> before,
                   sink |-> collect_local_statistic(it, before)]
    /\ UNCHANGED <<concatVars, cfg, serviceVars, mergeVars, last>>

\* the counters a configuration may reach
MaxStat == 6

\* the protocol calls and collect_local_statistic on a run that counts, as
\* long as no counter passes MaxStat
NextConcatCounting ==
    /\ \/ NextConcat
       \/ ConcatCollect
    /\ Counted(it') <= MaxStat
    /\ got'.tag = "Stats" => got'.sink <= MaxStat

----------------------------------------------------------------------------
(* The driver of a merge iterator over its children *)

IdleConcat ==
    /\ it = Concat_new(ConcatInner, Forward, <<>>)
    /\ ret = "None"
    /\ start = NoStart
    /\ emitted = <<>>
    /\ loads = <<>>
    /\ calls = <<>>

\* ordered merges serve reads over forward and backward concat iterators;
\* unordered merges serve those and compaction (ConcatSstableIterator children,
\* and MultiSstIterator's ConcatIterator / SstableIterator children)
MergeTypes ==
    {[root |-> "merge", ordered |-> TRUE, dir |-> d, kind |-> ConcatInner,
      stats |-> FALSE, prefetch |-> FALSE, eager_end |-> FALSE] : d \in {Forward, Backward}}
    \cup {[root |-> "merge", ordered |-> FALSE, dir |-> ty[2], kind |-> ty[1],
           stats |-> FALSE, prefetch |-> FALSE, eager_end |-> FALSE] : ty \in ChildTypes}

\* a merge iterator constructed over no iterator at all
NoChildren == <<>>

InitMergeOver(types, inputs) ==
    /\ \E t \in types, children \in inputs :
          /\ FitsKind(t.kind, children)
          /\ cfg = t
          /\ iters = [c \in 1..Len(children) |->
                        Concat_new(t.kind, t.dir, Arrange(t.dir, children[c]))]
          /\ unused_iters = 1..Len(children)
    /\ heap = {}
    /\ top = 0
    /\ last_table_key = <<>>
    /\ mstart = NoStart
    /\ memitted = <<>>
    /\ mret = "None"
    /\ failed = 0
    /\ got = NoneGot
    /\ last = "new"
    /\ IdleConcat
    /\ IdleServices

InitMerge ==
    InitMergeOver(MergeTypes, GeneratedChildren \cup ScenarioChildren \cup {NoChildren})

\* the children of the merges that do more than the protocol calls (failing
\* calls, counters): fewer keys, so that the further choices can be enumerated
FewTotalKeys == 2
FewChildren == GeneratedChildrenUpTo(FewTotalKeys) \cup ScenarioChildren \cup {NoChildren}

InitMergeFallible == InitMergeOver(MergeTypes, FewChildren)

\* the merges whose children's rewind and seek fail as well: the scenarios'
\* children
InitMergeJoin == InitMergeOver(MergeTypes, ScenarioChildren)

\* the merges whose SST iterators count the blocks they load
CountingTypes == {[t EXCEPT !.stats = TRUE] : t \in MergeTypes}
InitMergeCounting == InitMergeOver(CountingTypes, FewChildren)

Children == DOMAIN iters

ThisMerge == M(iters, heap, unused_iters, last_table_key)

\* the merge with the f-th fallible call under child c failing
ArmedChild(m, c, f) == [m EXCEPT !.iters[c] = Armed(m.iters[c], f)]

\* the entry the merge stands on, with the child that supplies it
MergeObserve(its, node, seen) ==
    IF Merge_is_valid(its, node)
    THEN Append(seen, [key |-> Merge_key(its, node), value |-> Merge_value(its, node),
                       child |-> node])
    ELSE seen

\* the merge's fields after a call, with the node the heap then exposes
Install(m, seen) ==
    /\ iters' = [c \in DOMAIN m.iters |-> Armed(m.iters[c], 0)]
    /\ heap' = m.heap
    /\ unused_iters' = m.unused_iters
    /\ last_table_key' = m.last_table_key
    /\ top' \in Peeks(cfg, m.iters, m.heap)
    /\ memitted' = MergeObserve(m.iters, top', seen)
    /\ mret' = m.ret
    /\ failed' = m.failed
    /\ got' = NoneGot

MergeRewind ==
    /\ Running
    /\ last' = "rewind"
    /\ cfg.root = "merge"
    /\ Install(Merge_rewind(ThisMerge), <<>>)
    /\ mstart' = [op |-> "rewind", key |-> NoKey]
    /\ UNCHANGED <<cfg, serviceVars, concatVars>>

MergeSeek(k) ==
    /\ Running
    /\ last' = "seek"
    /\ cfg.root = "merge"
    /\ Install(Merge_seek(ThisMerge, k), <<>>)
    /\ mstart' = [op |-> "seek", key |-> k]
    /\ UNCHANGED <<cfg, serviceVars, concatVars>>

\* next(), called on a valid merge iterator m
MergeNextOn(m) ==
    /\ Running
    /\ last' = "next"
    /\ cfg.root = "merge"
    /\ Merge_is_valid(iters, top)
    /\ Install(Merge_next(cfg, m, top), memitted)
    /\ UNCHANGED <<cfg, serviceVars, mstart, concatVars>>

MergeNext == MergeNextOn(ThisMerge)

\* next(), the f-th fallible call under child c failing
MergeNextAt(c, f) == MergeNextOn(ArmedChild(ThisMerge, c, f))

\* rewind(), the f-th fallible call under child c failing when the children
\* in done have completed theirs
MergeRewindAt(c, f, done) ==
    /\ Running
    /\ last' = "rewind"
    /\ cfg.root = "merge"
    /\ Merge_rewind_joined(ArmedChild(ThisMerge, c, f), done).ret = "Err"
    /\ Install(Merge_rewind_joined(ArmedChild(ThisMerge, c, f), done), <<>>)
    /\ mstart' = [op |-> "rewind", key |-> NoKey]
    /\ UNCHANGED <<cfg, serviceVars, concatVars>>

\* seek(k), the f-th fallible call under child c failing likewise
MergeSeekAt(k, c, f, done) ==
    /\ Running
    /\ last' = "seek"
    /\ cfg.root = "merge"
    /\ Merge_seek_joined(ArmedChild(ThisMerge, c, f), k, done).ret = "Err"
    /\ Install(Merge_seek_joined(ArmedChild(ThisMerge, c, f), k, done), <<>>)
    /\ mstart' = [op |-> "seek", key |-> k]
    /\ UNCHANGED <<cfg, serviceVars, concatVars>>

\* next() called on a merge iterator that is not valid
MergeNextInvalid ==
    /\ Running
    /\ last' = "next"
    /\ cfg.root = "merge"
    /\ ~Merge_is_valid(iters, top)
    /\ mret' = IF Merge_next_panics(iters, heap, top) THEN "Panic" ELSE "Ok"
    /\ got' = NoneGot
    /\ UNCHANGED <<iters, heap, top, unused_iters, last_table_key, mstart, memitted,
                   failed, cfg, serviceVars, concatVars>>

\* key() and value(), called in any state
MergeKey ==
    /\ Running
    /\ cfg.root = "merge"
    /\ got' = IF Merge_key_panics(iters, heap, top) THEN Panic
              ELSE [tag |-> "Key", key |-> Merge_key(iters, top)]
    /\ UNCHANGED <<concatVars, cfg, serviceVars, mergeVars, last>>

MergeValue ==
    /\ Running
    /\ cfg.root = "merge"
    /\ got' = IF Merge_value_panics(iters, heap, top) THEN Panic
              ELSE [tag |-> "Value", value |-> Merge_value(iters, top)]
    /\ UNCHANGED <<concatVars, cfg, serviceVars, mergeVars, last>>

NextMerge ==
    \/ MergeRewind
    \/ \E k \in SeekKeys : MergeSeek(k)
    \/ MergeNext

\* the protocol calls with children whose next() may fail
NextMergeFallible ==
    \/ MergeRewind
    \/ \E k \in FewSeekKeys : MergeSeek(k)
    \/ MergeNext
    \/ \E c \in Children, f \in 1..MaxFailAt : MergeNextAt(c, f)

\* the protocol calls on a merge that counts, as long as no child has counted
\* more than MaxStat
NextMergeCounting ==
    /\ \/ MergeRewind
       \/ \E k \in FewSeekKeys : MergeSeek(k)
       \/ MergeNext
    /\ \A c \in Children : Counted(iters'[c]) <= MaxStat

\* the protocol calls with children whose rewind and seek may fail
NextMergeJoin ==
    \/ MergeRewind
    \/ \E k \in FewSeekKeys : MergeSeek(k)
    \/ MergeNext
    \/ \E c \in Children, f \in 1..MaxFailAt :
          \E done \in SUBSET (Children \ {c}) : MergeRewindAt(c, f, done)
    \/ \E k \in FewSeekKeys, c \in Children, f \in 1..MaxFailAt :
          \E done \in SUBSET (Children \ {c}) : MergeSeekAt(k, c, f, done)

\* those, and the calls the contract does not cover
NextMergeAny ==
    \/ NextMergeFallible
    \/ MergeNextInvalid
    \/ MergeKey
    \/ MergeValue

----------------------------------------------------------------------------

Init == InitConcat \/ InitMerge
Next == NextConcat \/ NextMerge

----------------------------------------------------------------------------
(* DataChunk::rechunk. A chunk is its cardinality and one column, the rows *)
(* of the column being numbers; further columns are sliced the same way.   *)

\* input chunks, rows of one chunk, and the size limit
MaxChunks == 3
MaxChunkRows == 2
MaxLimit == 4

DataChunk(cardinality, column) == [cardinality |-> cardinality, column |-> column]

RECURSIVE total_cardinality(_)
total_cardinality(chunks) ==
    IF chunks = <<>> THEN 0
    ELSE Head(chunks).cardinality + total_cardinality(Tail(chunks))

\* the array builder after append_array of every chunk's column
RECURSIVE new_array(_)
new_array(chunks) ==
    IF chunks = <<>> THEN <<>> ELSE Head(chunks).column \o new_array(Tail(chunks))

Min(a, b) == IF a <= b THEN a ELSE b

\* get_continuous_sub_array(start_idx, end_idx): both ends included, from 0
get_continuous_sub_array(array, start_idx, end_idx) ==
    SubSeq(array, start_idx + 1, end_idx + 1)

\* rechunk that rounds the number of chunks down
rechunk_rounds_down(chunks, each_size_limit) ==
    IF chunks = <<>> THEN <<>>
    ELSE LET num_chunks == total_cardinality(chunks) \div each_size_limit
             array == new_array(chunks)
         IN  [i \in 1..num_chunks |->
                LET chunk_idx == i - 1
                    start_idx == each_size_limit * chunk_idx
                    end_idx == Min(each_size_limit * (chunk_idx + 1) - 1, Len(array) - 1)
                IN  DataChunk(end_idx - start_idx + 1,
                              get_continuous_sub_array(array, start_idx, end_idx))]

rechunk(chunks, each_size_limit) ==
    IF chunks = <<>> THEN <<>>
    ELSE LET num_chunks ==
                 (total_cardinality(chunks) + each_size_limit - 1) \div each_size_limit
             array == new_array(chunks)
         IN  [i \in 1..num_chunks |->
                LET chunk_idx == i - 1
                    start_idx == each_size_limit * chunk_idx
                    end_idx == Min(each_size_limit * (chunk_idx + 1) - 1, Len(array) - 1)
                IN  DataChunk(end_idx - start_idx + 1,
                              get_continuous_sub_array(array, start_idx, end_idx))]

\* chunks of the given sizes holding the rows 0, 1, 2, ... in order
RECURSIVE SizesBefore(_, _)
SizesBefore(sizes, i) == IF i <= 1 THEN 0 ELSE sizes[i - 1] + SizesBefore(sizes, i - 1)

ChunksOf(sizes) ==
    [i \in 1..Len(sizes) |->
        DataChunk(sizes[i], [j \in 1..sizes[i] |-> SizesBefore(sizes, i) + j - 1])]

\* the test's input: ten chunks of 60 rows, rechunked at 80
TestChunks == ChunksOf([i \in 1..10 |-> 60])
TestLimit == 80

InitRechunk ==
    /\ \/ \E n \in 0..MaxChunks, limit \in 0..MaxLimit :
             \E sizes \in [1..n -> 0..MaxChunkRows] :
                cfg = [root |-> "rechunk", chunks |-> ChunksOf(sizes),
                       each_size_limit |-> limit]
       \/ cfg = [root |-> "rechunk", chunks |-> TestChunks, each_size_limit |-> TestLimit]
    /\ got = NoneGot
    /\ last = "new"
    /\ IdleConcat
    /\ IdleMerge
    /\ IdleServices

\* rechunk(&chunks, each_size_limit): assert!(each_size_limit > 0) panics
Rechunk ==
    /\ Running
    /\ cfg.root = "rechunk"
    /\ last' = "rechunk"
    /\ got' = IF cfg.each_size_limit > 0
              THEN [tag |-> "Chunks", chunks |-> rechunk(cfg.chunks, cfg.each_size_limit)]
              ELSE Panic
    /\ UNCHANGED <<concatVars, cfg, serviceVars, mergeVars>>

----------------------------------------------------------------------------
(* The meta dashboard: DashboardService and its list_clusters handler *)

\* list_clusters requests in flight on one DashboardService
NumRequests == 2
Requests == 1..NumRequests

\* warp runs each request as a task of the tokio runtime it is served on: the
\* tasks of a multi-thread runtime run in parallel, those of a current-thread
\* runtime change over at an .await only
Runtimes == {"multi_thread", "current_thread"}

\* the ty of a request: a ClusterType, or an i32 that is none
RequestTypes == {"Frontend", "Unknown"}

\* a request that has not been polled yet
NewRequest(ty) == [pc |-> "load", ty |-> ty, reply |-> "None"]

\* DashboardService with has_test_data false, an empty cluster manager
\* (add_worker_node: the calls made for the test data) and its requests
DashboardService(tys) ==
    [has_test_data |-> FALSE, add_worker_node |-> 0, workers |-> 0,
     requests |-> [r \in Requests |-> NewRequest(tys[r])]]

InitDashboard ==
    /\ \E rt \in Runtimes : cfg = [root |-> "dashboard", runtime |-> rt]
    /\ \E tys \in [Requests -> RequestTypes] : srv = DashboardService(tys)
    /\ session = NoService
    /\ got = NoneGot
    /\ last = "new"
    /\ IdleConcat
    /\ IdleMerge

\* request r may take a step: on a current-thread runtime no other request
\* is between two awaits (here: between the load and the store)
Scheduled(r) ==
    \/ cfg.runtime = "multi_thread"
    \/ \A q \in Requests \ {r} : srv.requests[q].pc # "store"

At(s, r, pc) == [s EXCEPT !.requests[r].pc = pc]

Reply(s, r, status) == [s EXCEPT !.requests[r].pc = "done", !.requests[r].reply = status]

\* add_test_data: if self.has_test_data.load(SeqCst) { return Ok(()) }
add_test_data_load(s, r) ==
    IF s.has_test_data THEN At(s, r, "list_worker_node") ELSE At(s, r, "store")

\* add_test_data: self.has_test_data.store(true, SeqCst)
add_test_data_store(s, r) ==
    At([s EXCEPT !.has_test_data = TRUE], r, "add_worker_node")

\* add_test_data: self.cluster_manager.add_worker_node(..).await?, whose
\* error list_clusters turns into the INTERNAL_SERVER_ERROR reply
add_test_data_add_worker_node(s, r, ok) ==
    LET called == [s EXCEPT !.add_worker_node = @ + 1]
    IN  IF ok THEN At([called EXCEPT !.workers = @ + 1], r, "list_worker_node")
        ELSE Reply(called, r, "INTERNAL_SERVER_ERROR")

\* list_clusters_inner after add_test_data: ClusterType::from_i32(ty) or the
\* "invalid cluster type" error, then list_worker_node(..).await?
list_clusters_inner(s, r, ok) ==
    IF s.requests[r].ty = "Unknown" \/ ~ok
    THEN Reply(s, r, "INTERNAL_SERVER_ERROR")
    ELSE Reply(s, r, "OK")

DashboardStep(r, pc, call) ==
    /\ cfg.root = "dashboard"
    /\ srv.requests[r].pc = pc
    /\ last' = call
    /\ UNCHANGED <<concatVars, cfg, mergeVars, session, got>>

AddTestDataLoad(r) ==
    /\ DashboardStep(r, "load", "load")
    /\ Scheduled(r)
    /\ srv' = add_test_data_load(srv, r)

AddTestDataStore(r) ==
    /\ DashboardStep(r, "store", "store")
    /\ srv' = add_test_data_store(srv, r)

AddWorkerNode(r, ok) ==
    /\ DashboardStep(r, "add_worker_node", "add_worker_node")
    /\ Scheduled(r)
    /\ srv' = add_test_data_add_worker_node(srv, r, ok)

ListWorkerNode(r, ok) ==
    /\ DashboardStep(r, "list_worker_node", "list_worker_node")
    /\ Scheduled(r)
    /\ srv' = list_clusters_inner(srv, r, ok)

NextDashboard ==
    \/ \E r \in Requests : AddTestDataLoad(r)
    \/ \E r \in Requests : AddTestDataStore(r)
    \/ \E r \in Requests, ok \in BOOLEAN : AddWorkerNode(r, ok)
    \/ \E r \in Requests, ok \in BOOLEAN : ListWorkerNode(r, ok)

\* C38: however concurrent list_clusters requests on one DashboardService
\* interleave, add_worker_node is called for the test data at most once.
C38_TestDataAddedAtMostOnce ==
    cfg.root = "dashboard" => srv.add_worker_node <= 1

----------------------------------------------------------------------------
(* The frontend's DML handler: handle_dml and flush_for_write *)

\* chunks the query manager's stream yields at most
MaxDmlChunks == 2
\* epochs the meta node's flush returns
MaxEpoch == 2

Statements == {"Insert", "Delete", "Update"}

to_statement_type(stmt) ==
    CASE stmt = "Insert" -> "INSERT"
      [] stmt = "Delete" -> "DELETE"
      [] stmt = "Update" -> "UPDATE"

\* a session (implicit_flush of its config, whether it holds the privileges
\* the statement needs) with a handle_dml(context, stmt) call about to start.
\* events: the calls made so far; max_committed_epoch: what client.flush()
\* returned; update_epoch: what update_epoch was called with; rows: the rows
\* collected from the stream; response: what handle_dml returned
SessionImpl(stmt, implicit_flush, privileged) ==
    [tag |-> "dml", pc |-> "handle_dml", stmt |-> stmt,
     implicit_flush |-> implicit_flush, privileged |-> privileged,
     events |-> <<>>, chunks |-> 0, rows |-> 0,
     max_committed_epoch |-> <<>>, update_epoch |-> <<>>, response |-> "None"]

InitDml ==
    /\ cfg = [root |-> "dml"]
    /\ \E stmt \in Statements, implicit_flush \in BOOLEAN, privileged \in BOOLEAN :
          session = SessionImpl(stmt, implicit_flush, privileged)
    /\ srv = NoService
    /\ got = NoneGot
    /\ last = "new"
    /\ IdleConcat
    /\ IdleMerge

Called(s, ev) == [s EXCEPT !.events = Append(@, ev)]

Returned(s, response) == [s EXCEPT !.pc = "done", !.response = response]

\* handle_dml up to its first await: binder.bind(stmt)?, check_privileges(..)?,
\* Planner::plan(bound)? and gen_batch_query_plan()?
handle_dml_plan(s, bind_ok, plan_ok) ==
    LET bound == Called(s, "bind")
        checked == Called(bound, "check_privileges")
        planned == Called(checked, "plan")
    IN  IF ~bind_ok THEN Returned(bound, "Err")
        ELSE IF ~s.privileged THEN Returned(checked, "Err")
        ELSE IF ~plan_ok THEN Returned(planned, "Err")
        ELSE [planned EXCEPT !.pc = "schedule_single"]

\* query_manager.schedule_single(execution_context, plan, vnodes).await?
handle_dml_schedule_single(s, ok) ==
    LET scheduled == Called(s, "schedule_single")
    IN  IF ok THEN [scheduled EXCEPT !.pc = "chunks"] ELSE Returned(scheduled, "Err")

\* one turn of the for_await loop: rows.extend(to_pg_rows(chunk?, false))
handle_dml_chunk(s, ok, nrows) ==
    LET polled == Called([s EXCEPT !.chunks = @ + 1], "chunk")
    IN  IF ok THEN [polled EXCEPT !.rows = @ + nrows] ELSE Returned(polled, "Err")

\* flush_for_write(&session, stmt_type): for a write, client.flush().await?
\* and update_epoch(max_committed_epoch)
flush_for_write_without_update(s, stmt_type, ok, epoch) ==
    IF stmt_type \in {"INSERT", "DELETE", "UPDATE"}
    THEN LET flushing == Called(s, "flush")
         IN  IF ok
             THEN [ret |-> "Ok",
                   s |-> [flushing EXCEPT !.max_committed_epoch = <<epoch>>]]
             ELSE [ret |-> "Err", s |-> flushing]
    ELSE [ret |-> "Ok", s |-> s]

flush_for_write(s, stmt_type, ok, epoch) ==
    IF stmt_type \in {"INSERT", "DELETE", "UPDATE"}
    THEN LET flushing == Called(s, "flush")
         IN  IF ok
             THEN [ret |-> "Ok",
                   s |-> Called([flushing EXCEPT !.max_committed_epoch = <<epoch>>,
                                                 !.update_epoch = <<epoch>>],
                                "update_epoch")]
             ELSE [ret |-> "Err", s |-> flushing]
    ELSE [ret |-> "Ok", s |-> s]

\* handle_dml after the stream has ended: rows[0] and the expect() on its
\* first value panic when there is none; then the implicit flush, awaited
\* in its own step
handle_dml_rows_count(s, affected_rows) ==
    IF s.rows = 0 \/ ~affected_rows THEN Returned(s, "Panic")
    ELSE IF s.implicit_flush THEN [s EXCEPT !.pc = "flush_for_write"]
    ELSE Returned(s, "Ok")

\* flush_for_write(&session, stmt_type).await?; Ok(PgResponse::new(..))
handle_dml_flush(s, ok, epoch) ==
    LET r == flush_for_write(s, to_statement_type(s.stmt), ok, epoch)
    IN  Returned(r.s, r.ret)

DmlStep(pc, call) ==
    /\ cfg.root = "dml"
    /\ session.pc = pc
    /\ last' = call
    /\ UNCHANGED <<concatVars, cfg, mergeVars, srv, got>>

HandleDmlPlan(bind_ok, plan_ok) ==
    /\ DmlStep("handle_dml", "plan")
    /\ session' = handle_dml_plan(session, bind_ok, plan_ok)

HandleDmlScheduleSingle(ok) ==
    /\ DmlStep("schedule_single", "schedule_single")
    /\ session' = handle_dml_schedule_single(session, ok)

HandleDmlChunk(ok, nrows) ==
    /\ DmlStep("chunks", "chunk")
    /\ session.chunks < MaxDmlChunks
    /\ session' = handle_dml_chunk(session, ok, nrows)

HandleDmlRowsCount(affected_rows) ==
    /\ DmlStep("chunks", "rows_count")
    /\ session' = handle_dml_rows_count(session, affected_rows)

HandleDmlFlush(ok, epoch) ==
    /\ DmlStep("flush_for_write", "flush_for_write")
    /\ session' = handle_dml_flush(session, ok, epoch)

NextDml ==
    \/ \E bind_ok \in BOOLEAN, plan_ok \in BOOLEAN : HandleDmlPlan(bind_ok, plan_ok)
    \/ \E ok \in BOOLEAN : HandleDmlScheduleSingle(ok)
    \/ \E ok \in BOOLEAN, nrows \in 0..1 : HandleDmlChunk(ok, nrows)
    \/ \E affected_rows \in BOOLEAN : HandleDmlRowsCount(affected_rows)
    \/ \E ok \in BOOLEAN, epoch \in 0..MaxEpoch : HandleDmlFlush(ok, epoch)

\* the calls of a handle_dml that executed the write over n chunks and then
\* flushed and updated the snapshot epoch
WriteThenFlush(n) ==
    <<"bind", "check_privileges", "plan", "schedule_single">>
        \o [i \in 1..n |-> "chunk"] \o <<"flush", "update_epoch">>

Has(events, ev) == \E i \in 1..Len(events) : events[i] = ev

\* C39: with implicit flush on, handle_dml returns success for a write only
\* after the write was executed (planned, scheduled, its stream consumed),
\* then the meta flush completed, then update_epoch was called with the max
\* committed epoch that flush returned; when the privilege check fails
\* nothing is planned or scheduled; when the flush fails no success is
\* returned.
C39_SuccessAfterWriteFlushAndEpoch ==
    (cfg.root = "dml" /\ session.implicit_flush) =>
        /\ session.response = "Ok" =>
              /\ session.events = WriteThenFlush(session.chunks)
              /\ Len(session.max_committed_epoch) = 1
              /\ session.update_epoch = session.max_committed_epoch
        /\ (Has(session.events, "check_privileges") /\ ~session.privileged) =>
              /\ ~Has(session.events, "plan")
              /\ ~Has(session.events, "schedule_single")
              /\ session.response = "Err"
        /\ (Has(session.events, "flush") /\ session.max_committed_epoch = <<>>) =>
              session.response = "Err"

\* a successful INSERT with implicit flush, over a stream of two chunks, whose
\* flush returned a newer epoch
C39_Witness ==
    /\ cfg.root = "dml" /\ session.implicit_flush
    /\ session.stmt = "Insert" /\ session.response = "Ok"
    /\ session.chunks = 2 /\ session.update_epoch = <<MaxEpoch>>

Spec == Init /\ [][Next]_vars
SpecConcat == InitConcat /\ [][NextConcat]_vars
SpecMerge == InitMerge /\ [][NextMerge]_vars

\* the same iterators over a store and SST iterators that may fail
SpecConcatFallible == InitConcat /\ [][NextConcatFallible]_vars
SpecConcatAny == InitConcat /\ [][NextConcatAny]_vars
SpecConcatCalls == InitConcat /\ [][NextConcatCalls]_vars
SpecMergeFallible == InitMergeFallible /\ [][NextMergeFallible]_vars
SpecConcatInf == InitConcatInf /\ [][NextConcat]_vars
SpecConcatPrefetch == InitConcatPrefetch /\ [][NextConcat]_vars
SpecConcatCounting == InitConcatCounting /\ [][NextConcatCounting]_vars
SpecMergeCounting == InitMergeCounting /\ [][NextMergeCounting]_vars
SpecMergeJoin == InitMergeJoin /\ [][NextMergeJoin]_vars
SpecScan == (InitConcat \/ InitMergeFallible) /\ [][Next]_vars
SpecConcatPlainCalls == InitConcat /\ [][NextConcatPlainCalls]_vars
SpecRechunk == InitRechunk /\ [][Rechunk]_vars
SpecDashboard == InitDashboard /\ [][NextDashboard]_vars
SpecDml == InitDml /\ [][NextDml]_vars
SpecAny == (InitConcat \/ InitMergeFallible) /\ [][NextConcatAny \/ NextMergeAny]_vars

----------------------------------------------------------------------------
(* What the claims are stated over *)

RECURSIVE Flatten(_)
Flatten(tables) == IF tables = <<>> THEN <<>> ELSE Head(tables) \o Flatten(Tail(tables))

\* the entries of an iterator's run in ascending key order, and in scan order
AscEntries(c) == IF c.dir = Forward THEN Flatten(c.tables) ELSE Flatten(Reverse(c.tables))
ScanEntries(c) == IF c.dir = Forward THEN AscEntries(c) ELSE Reverse(AscEntries(c))

Strip(e) == Entry(e.key, e.value)
StripAll(seen) == [i \in 1..Len(seen) |-> Strip(seen[i])]
Count(seq, x) == Cardinality({i \in 1..Len(seq) : seq[i] = x})
Range(seq) == {seq[i] : i \in 1..Len(seq)}
KeysOf(seq) == {seq[i].key : i \in 1..Len(seq)}

ChildSlots == UNION {{<<c, i>> : i \in 1..Len(AscEntries(iters[c]))} : c \in Children}
ChildEntryAt(p) == AscEntries(iters[p[1]])[p[2]]
AllChildEntries == {ChildEntryAt(p) : p \in ChildSlots}
Occurrences(e) == Cardinality({p \in ChildSlots : ChildEntryAt(p) = e})
EmittedBy(c) == StripAll(SelectSeq(memitted, LAMBDA e : e.child = c))

NonDecreasing(seen) == \A i \in 1..(Len(seen) - 1) : KeyLe(seen[i].key, seen[i + 1].key)
Increasing(seen) == \A i \in 1..(Len(seen) - 1) : KeyLt(seen[i].key, seen[i + 1].key)
NonIncreasing(seen) == \A i \in 1..(Len(seen) - 1) : KeyLe(seen[i + 1].key, seen[i].key)
Decreasing(seen) == \A i \in 1..(Len(seen) - 1) : KeyLt(seen[i + 1].key, seen[i].key)

\* the merge was rewound and stepped until is_valid() is false
MergeScanned ==
    cfg.root = "merge" /\ mstart.op = "rewind" /\ ~Merge_is_valid(iters, top)

\* the concat iterator was rewound and stepped until is_valid() is false
ConcatScanned ==
    cfg.root = "concat" /\ start.op = "rewind" /\ ~is_valid(it) /\ ret # "Pending"

----------------------------------------------------------------------------
\* C1: a forward unordered merge, rewound and stepped until it is invalid, has
\* emitted every entry of every child exactly once (the multiset union, equal
\* keys of different children all kept), in non-decreasing key order.
C1_UnorderedMergeEmitsMultisetUnion ==
    (MergeScanned /\ ~cfg.ordered /\ cfg.dir = Forward) =>
        /\ \A e \in AllChildEntries \cup Range(StripAll(memitted)) :
              Count(StripAll(memitted), e) = Occurrences(e)
        /\ \A c \in Children : EmittedBy(c) = AscEntries(iters[c])
        /\ NonDecreasing(memitted)

C1_Witness ==
    /\ MergeScanned /\ ~cfg.ordered /\ cfg.dir = Forward
    /\ Len(memitted) >= 3
    /\ \E i \in 1..(Len(memitted) - 1) :
          memitted[i].key = memitted[i + 1].key /\ memitted[i].child # memitted[i + 1].child

\* C2: a forward ordered merge, rewound and stepped until it is invalid, has
\* emitted each distinct key held by any child exactly once, in strictly
\* increasing order, each with the value of the lowest-indexed child holding it.
C2_OrderedMergeEmitsSetUnion ==
    (MergeScanned /\ cfg.ordered /\ cfg.dir = Forward) =>
        /\ KeysOf(memitted) = {e.key : e \in AllChildEntries}
        /\ Increasing(memitted)
        /\ \A i \in 1..Len(memitted) :
              LET holders == {c \in Children : memitted[i].key \in KeysOf(AscEntries(iters[c]))}
                  first == CHOOSE c \in holders : \A d \in holders : c <= d
              IN  /\ memitted[i].child = first
                  /\ Strip(memitted[i]) \in Range(AscEntries(iters[first]))

C2_Witness ==
    /\ MergeScanned /\ cfg.ordered /\ cfg.dir = Forward
    /\ Len(memitted) >= 2
    /\ \E i \in 1..Len(memitted) :
          /\ \A c \in Children : memitted[i].key \in KeysOf(AscEntries(iters[c]))
          /\ Cardinality(Children) = 2
          /\ memitted[i].child = 1
          /\ \E e \in Range(AscEntries(iters[2])) :
                e.key = memitted[i].key /\ e.value # memitted[i].value

\* C3: a forward concat iterator, rewound and stepped (next, or poll_next with
\* await_next on Pending) until it is invalid, has emitted exactly the entries
\* of the run, each once, in sorted order, and has asked the store for every
\* SST of the run once, in run order.
C3_ForwardConcatEmitsRun ==
    (ConcatScanned /\ cfg.dir = Forward) =>
        /\ emitted = Flatten(it.tables)
        /\ Increasing(emitted)
        /\ loads = [i \in 1..Len(it.tables) |-> i - 1]

C3_Witness ==
    /\ ConcatScanned /\ cfg.dir = Forward
    /\ it.tables = TwoSstRun
    /\ [i \in 1..Len(emitted) |-> emitted[i].key.uk] = <<1, 2, 3, 4, 5>>
    /\ loads = <<0, 1>>

\* the entries of the run at or after the sought key, in ascending order, and
\* those at or before it, in descending order
AtOrAfter(c, k) == SelectSeq(AscEntries(c), LAMBDA e : KeyLe(k, e.key))
AtOrBefore(c, k) == SelectSeq(Reverse(AscEntries(c)), LAMBDA e : KeyLe(e.key, k))

\* C4: after seek(k) a forward concat iterator is invalid when the run holds no
\* key >= k, and otherwise stands on the smallest key of the run that is >= k,
\* wherever k lies (before the run, inside an SST, in a gap, after the run).
C4_ForwardConcatSeek ==
    (cfg.root = "concat" /\ cfg.dir = Forward /\ last = "seek") =>
        LET want == AtOrAfter(it, start.key)
        IN  IF want = <<>> THEN ~is_valid(it)
            ELSE is_valid(it) /\ key(it) = want[1].key /\ value(it) = want[1].value

C4_Witness ==
    /\ cfg.root = "concat" /\ cfg.dir = Forward /\ last = "seek"
    /\ it.tables = HoleRun
    /\ start.key = FullKey(7, 1)
    /\ is_valid(it) /\ key(it) = FullKey(13, 1)

\* C5: after seek(k) a backward concat iterator is invalid when the run holds no
\* key <= k, and otherwise stands on the largest key of the run that is <= k;
\* the next() calls that follow emit the remaining keys in decreasing order.
C5_BackwardConcatSeek ==
    (cfg.root = "concat" /\ cfg.dir = Backward /\ start.op = "seek") =>
        LET want == AtOrBefore(it, start.key)
        IN  /\ last = "seek" =>
                 IF want = <<>> THEN ~is_valid(it)
                 ELSE is_valid(it) /\ key(it) = want[1].key
            /\ Len(emitted) <= Len(want)
            /\ emitted = SubSeq(want, 1, Len(emitted))
            /\ NonIncreasing(emitted)
            /\ (~is_valid(it) /\ ret # "Pending") => emitted = want

C5_Witness ==
    /\ cfg.root = "concat" /\ cfg.dir = Backward /\ start.op = "seek"
    /\ ~is_valid(it) /\ ret # "Pending"
    /\ Len(it.tables) = 2
    /\ Len(emitted) >= 2
    /\ KeyLt(start.key, KeyRangeRight(it.tables[1]))
    /\ emitted[1] \in Range(it.tables[1])
    /\ emitted[Len(emitted)] \in Range(it.tables[2])

\* C6: after seek(k) on a forward merge iterator, from whatever state, every
\* child has been sought to k; the merge is valid iff some child holds a key
\* >= k and then stands on the smallest such key; stepped to the end it emits
\* the merge of the child entries with key >= k.
C6_ForwardMergeSeek ==
    (cfg.root = "merge" /\ cfg.dir = Forward /\ mstart.op = "seek") =>
        LET k == mstart.key
            want(c) == AtOrAfter(iters[c], k)
        IN  /\ last = "seek" =>
                 /\ \A c \in Children :
                       IF want(c) = <<>> THEN ~is_valid(iters[c])
                       ELSE /\ is_valid(iters[c])
                            /\ Entry(key(iters[c]), value(iters[c])) = want(c)[1]
                 /\ Merge_is_valid(iters, top) <=> \E c \in Children : want(c) # <<>>
                 /\ Merge_is_valid(iters, top) =>
                       \A c \in Children : \A e \in Range(want(c)) :
                          KeyLe(Merge_key(iters, top), e.key)
            /\ ~Merge_is_valid(iters, top) =>
                 IF cfg.ordered
                 THEN /\ KeysOf(memitted) = UNION {KeysOf(want(c)) : c \in Children}
                      /\ Increasing(memitted)
                 ELSE /\ \A c \in Children : EmittedBy(c) = want(c)
                      /\ NonDecreasing(memitted)

C6_Witness ==
    /\ cfg.root = "merge" /\ cfg.dir = Forward /\ last = "seek"
    /\ Merge_is_valid(iters, top)
    /\ \E c \in Children : ~is_valid(iters[c]) /\ AscEntries(iters[c]) # <<>>
    /\ \E c \in Children :
          /\ is_valid(iters[c])
          /\ Len(AtOrAfter(iters[c], mstart.key)) < Len(AscEntries(iters[c]))

\* C7: every iterator of the family emits keys monotonically in its direction;
\* consecutive emitted keys are equal only in an unordered merge, where two
\* different children hold that key.
C7_MonotoneEmission ==
    /\ cfg.root = "concat" =>
          IF cfg.dir = Forward THEN Increasing(emitted) ELSE Decreasing(emitted)
    /\ cfg.root = "merge" =>
          /\ IF cfg.dir = Forward THEN NonDecreasing(memitted) ELSE NonIncreasing(memitted)
          /\ \A i \in 1..(Len(memitted) - 1) :
                memitted[i].key = memitted[i + 1].key =>
                   /\ ~cfg.ordered
                   /\ memitted[i].child # memitted[i + 1].child
                   /\ memitted[i].key \in KeysOf(AscEntries(iters[memitted[i].child]))
                   /\ memitted[i].key \in KeysOf(AscEntries(iters[memitted[i + 1].child]))

C7_Witness ==
    /\ cfg.root = "merge" /\ ~cfg.ordered /\ cfg.dir = Backward
    /\ Len(memitted) >= 3
    /\ \E i \in 1..(Len(memitted) - 1) : memitted[i].key = memitted[i + 1].key
    /\ \E i \in 1..(Len(memitted) - 1) : KeyLt(memitted[i + 1].key, memitted[i].key)

\* the children in the heap that stand on the key the merge exposes
TiedWithTop == {c \in heap : key(iters[c]) = key(iters[top])}

\* C8: in an ordered merge, when several children stand on the key the merge
\* exposes, the heap top is the one of them with the smallest construction
\* index (forward) or the largest (backward).
C8_OrderedTieBreak ==
    (cfg.root = "merge" /\ cfg.ordered /\ top # 0 /\ Cardinality(TiedWithTop) >= 2) =>
        /\ top \in TiedWithTop
        /\ cfg.dir = Forward => \A c \in TiedWithTop : top <= c
        /\ cfg.dir = Backward => \A c \in TiedWithTop : top >= c

C8_Witness ==
    /\ cfg.root = "merge" /\ cfg.ordered /\ cfg.dir = Backward
    /\ top = 2
    /\ TiedWithTop = {1, 2}
    /\ value(iters[1]) # value(iters[2])

\* the runs of the children, by construction index
ChildRuns == [c \in Children |-> iters[c].tables]

\* the entries of the same user key that precede entry i of a scan
EarlierOfUserKey(seen, i) == {j \in 1..(i - 1) : seen[j].key.uk = seen[i].key.uk}

\* C9 as stated: a forward ordered merge presents one entry per user key, the
\* one with the highest epoch; children X and Y of scenario 2 yield the keys
\* k1, k2, k3 with k1 a single time and Y's v7 as its value.
C9_OneEntryPerUserKey ==
    (MergeScanned /\ cfg.ordered /\ cfg.dir = Forward) =>
        /\ \A i \in 1..Len(memitted) : EarlierOfUserKey(memitted, i) = {}
        /\ \A i \in 1..Len(memitted) : \A e \in AllChildEntries :
              e.key.uk = memitted[i].key.uk => e.key.epoch <= memitted[i].key.epoch
        /\ ChildRuns = DedupChildren =>
              /\ [i \in 1..Len(memitted) |-> memitted[i].key.uk] = <<1, 2, 3>>
              /\ memitted[1].value = Put("v7")

\* C9 as amended: a forward ordered merge presents one entry per encoded key
\* (user key and epoch): every version of a user key held by some child is
\* presented, the highest epoch first; children X and Y of scenario 2 yield
\* k1@7 (Y's v7), k1@5 (X's v5), k2@3, k3@1.
C9_OneEntryPerEncodedKey ==
    (MergeScanned /\ cfg.ordered /\ cfg.dir = Forward) =>
        /\ KeysOf(memitted) = {e.key : e \in AllChildEntries}
        /\ \A i \in 1..Len(memitted) : \A j \in 1..Len(memitted) :
              memitted[i].key = memitted[j].key => i = j
        /\ \A i \in 1..Len(memitted) :
              EarlierOfUserKey(memitted, i) = {} =>
                 \A e \in AllChildEntries :
                    e.key.uk = memitted[i].key.uk => e.key.epoch <= memitted[i].key.epoch
        /\ ChildRuns = DedupChildren =>
              StripAll(memitted) =
                 <<Entry(FullKey(1, 7), Put("v7")), Entry(FullKey(1, 5), Put("v5")),
                   Entry(FullKey(2, 3), Put("v3")), Entry(FullKey(3, 1), Put("v1"))>>

C9_Witness ==
    /\ MergeScanned /\ cfg.ordered /\ cfg.dir = Forward
    /\ ChildRuns = DedupChildren
    /\ Len(memitted) = 4
    /\ memitted[1] = [key |-> FullKey(1, 7), value |-> Put("v7"), child |-> 2]
    /\ memitted[2] = [key |-> FullKey(1, 5), value |-> Put("v5"), child |-> 1]

\* C10: the compaction stream, a forward unordered merge over concat or SST
\* children, emits as many entries as its children hold, each with the value
\* (Put or Delete) its child holds for it, the versions of one user key in
\* descending epoch order; k@9 -> Delete and k@5 -> Put("old"), in one child
\* or in two, are both emitted, the Delete first.
C10_CompactionKeepsVersions ==
    (MergeScanned /\ ~cfg.ordered /\ cfg.dir = Forward) =>
        /\ Len(memitted) = Cardinality(ChildSlots)
        /\ \A p \in ChildSlots :
              \E i \in 1..Len(memitted) :
                 memitted[i].child = p[1] /\ Strip(memitted[i]) = ChildEntryAt(p)
        /\ \A i \in 1..Len(memitted) : \A j \in EarlierOfUserKey(memitted, i) :
              memitted[j].key.epoch >= memitted[i].key.epoch
        /\ ChildRuns \in {TombstoneOne, TombstoneTwo, TombstoneTwoSwapped} =>
              StripAll(memitted) =
                 <<Entry(FullKey(1, 9), Delete), Entry(FullKey(1, 5), Put("old"))>>

C10_Witness ==
    /\ MergeScanned /\ ~cfg.ordered /\ cfg.dir = Forward
    /\ cfg.kind = ConcatInner
    /\ ChildRuns = TombstoneTwoSwapped
    /\ memitted = <<[key |-> FullKey(1, 9), value |-> Delete, child |-> 2],
                    [key |-> FullKey(1, 5), value |-> Put("old"), child |-> 1]>>

----------------------------------------------------------------------------
\* the children a merge iterator no longer holds
Dropped == Children \ (heap \cup unused_iters)

\* C11: when a child's next() returns an error during next() of an ordered or
\* unordered merge iterator, the merge's next() returns the error, the failing
\* child is no longer in the heap, the heap is empty and is_valid() is false;
\* the merge's next() returns an error only then.
C11_ChildErrorInvalidatesMerge ==
    (cfg.root = "merge" /\ last = "next") =>
        /\ failed # 0 =>
              /\ mret = "Err"
              /\ failed \notin heap
              /\ heap = {}
              /\ top = 0
              /\ ~Merge_is_valid(iters, top)
        /\ mret = "Err" => failed # 0

C11_Witness ==
    /\ cfg.root = "merge" /\ last = "next" /\ mret = "Err"
    /\ cfg.ordered
    /\ failed = 2
    /\ Dropped = {1, 2}
    /\ Len(memitted) >= 1
    /\ is_valid(iters[1])

\* C12: once next() of a merge iterator has returned an error (it has then
\* dropped children), the merge iterator is never valid again, whatever is
\* called on it afterwards, rewind and seek included.
C12_NeverValidAfterError ==
    (cfg.root = "merge" /\ Dropped # {}) => ~Merge_is_valid(iters, top)

\* the calls that step an iterator
NextSteps == {"next", "poll_next", "await_next"}

\* the SST the iterator holds a child over (0: it holds none)
HeldSst(c) == IF c.sstable_iter = <<>> THEN 0 ELSE c.cur_idx + 1

\* C13: when the child SST iterator or the store returns an error during
\* poll_next, await_next or next of a concat iterator, the call returns the
\* error, the iterator has not moved to another SST, is_valid() is false, and
\* is_valid() is still false after the next-step called after that.
C13_ConcatErrorStops ==
    [][(cfg.root = "concat" /\ last' \in NextSteps) =>
          /\ ret' = "Err" =>
                /\ ~is_valid(it')
                /\ it'.cur_idx = it.cur_idx
                /\ HeldSst(it') = HeldSst(it)
          /\ (last \in NextSteps /\ ret = "Err") => ~is_valid(it')]_vars

\* C14: poll_next of a concat iterator never asks the store for an SST: the
\* SSTs loaded are the same after it as before; a step of the iterator asks
\* the store only in await_next, called after poll_next returned Pending (in
\* next(), after its own poll_next), the other loads being those of seek and
\* rewind.
C14_PollNextNeverLoads ==
    [][cfg.root = "concat" =>
          /\ last' = "poll_next" => loads' = loads
          /\ (last' = "await_next" /\ loads' # loads) => ret = "Pending"
          /\ (last' = "next" /\ loads' # loads) =>
                /\ poll_next(it).ret = "Pending"
                /\ poll_next(it).io = <<>>
          /\ loads' # loads => last' \in {"await_next", "next", "rewind", "seek"}]_vars

C14_Witness ==
    /\ cfg.root = "concat" /\ last = "poll_next" /\ ret = "Pending"
    /\ it.kind = ConcatInner
    /\ it.pending_stage = "AwaitSeekIdx"
    /\ Len(it.tables) = 2 /\ it.cur_idx = 0
    /\ loads = <<0>>

\* the position and the recorded stage of an iterator
Position(c) == [cur_idx |-> c.cur_idx, sstable_iter |-> c.sstable_iter,
                pending_stage |-> c.pending_stage, is_pending |-> c.is_pending]

\* the iterator as constructed over the same run
Fresh(c) == Concat_new(c.kind, c.dir, c.tables)

\* C15: a successful rewind or seek takes a concat iterator from any state,
\* also one in which an earlier poll_next recorded a pending stage, to Valid or
\* Exhausted: no pending stage is recorded afterwards, and where the iterator
\* stands depends only on the run and on the key sought.
C15_RewindSeekFromAnyState ==
    (cfg.root = "concat" /\ last \in {"rewind", "seek"} /\ ret = "Ok") =>
        /\ ~HasPending(it)
        /\ Position(it) = Position(IF last = "rewind" THEN rewind(Fresh(it)).it
                                   ELSE seek(Fresh(it), start.key).it)

\* C16: in every sequence of next(), rewind() and seek() calls on a concat
\* iterator, next() called on valid iterators only and any of the calls
\* possibly returning an error, next() enters poll_next with no pending stage
\* recorded: the Pending of the poll_next before was followed by its await_next.
C16_PollNextEnteredWithoutPending ==
    [][(cfg.root = "concat" /\ last' = "next") => ~HasPending(it)]_vars

\* C17: poll_next of a concat iterator never reports success on an iterator
\* it leaves invalid: when it returns Ready(Ok) is_valid() is true, and when
\* it steps off the end of the current SST it returns Pending.
C17_PollNextReadyIsValid ==
    (cfg.root = "concat" /\ last = "poll_next") =>
        /\ ret = "Ok" => is_valid(it)
        /\ (~is_valid(it) /\ ret # "Err") => (ret = "Pending" /\ HasPending(it))

C17_Witness ==
    /\ cfg.root = "concat" /\ last = "poll_next" /\ ret = "Pending"
    /\ it.kind = ConcatCompact
    /\ it.is_pending
    /\ it.cur_idx = Len(it.tables) - 1
    /\ it.sstable_iter[1].pos = Len(it.sstable_iter[1].table) + 1
    /\ Len(emitted) >= 2

\* C18: the end of the stream is not an error.  With a store and SST
\* iterators that do not fail, next() moving a concat or merge iterator past
\* its last key, and rewind() or seek() finding no key (empty run, no children,
\* every key before the key sought) return Ok: no call returns an error, and
\* the end shows only in is_valid() being false.
C18_EndOfStreamIsNotAnError ==
    /\ (cfg.root = "concat" /\ last # "new") =>
          /\ ret \in {"Ok", "Pending"}
          /\ (last \in {"next", "rewind", "seek"} /\ ~is_valid(it)) => ret = "Ok"
    /\ (cfg.root = "merge" /\ last # "new") =>
          /\ mret = "Ok"
          /\ ~Merge_is_valid(iters, top) => heap = {}

C18_Witness ==
    /\ cfg.root = "concat" /\ last = "next" /\ ret = "Ok"
    /\ ~is_valid(it)
    /\ it.tables = TwoSstRun
    /\ Len(emitted) = 5
    /\ it.sstable_iter = <<>>

RECURSIVE ChildrenStatistics(_, _)
ChildrenStatistics(its, n) ==
    IF n = 0 THEN 0
    ELSE collect_local_statistic(its[n], ChildrenStatistics(its, n - 1))

C20_StatisticsAdditive ==
    (/\ cfg.root = "merge" /\ cfg.stats
     /\ mstart.op = "rewind" /\ mret = "Ok"
     /\ ~Merge_is_valid(iters, top))
    => Merge_collect_local_statistic(iters, 0) = ChildrenStatistics(iters, Len(iters))

\* C21: the union is equivalent to the iterator it wraps: for each variant
\* and each method (next, poll_next, await_next, key, value, is_valid,
\* rewind, seek, collect_local_statistic) the call on the union gives what the
\* call on the wrapped iterator gives, leaves the wrapped iterator as that
\* call leaves it, and keeps the variant.
C21_UnionForwardsEveryMethod ==
    cfg.root = "concat" =>
        \A v \in Variants :
            LET u == Union(v, it)
                Same(ur, r) == ur = Res(Union(v, r.it), r.ret, r.io)
            IN  /\ Union_is_valid(u) = is_valid(it)
                /\ Same(Union_rewind(u), rewind(it))
                /\ \A k \in SeekKeys : Same(Union_seek(u, k), seek(it, k))
                /\ is_valid(it) =>
                      /\ Union_key(u) = key(it)
                      /\ Union_value(u) = value(it)
                /\ (is_valid(it) /\ ~HasPending(it)) =>
                      /\ Same(Union_next(u), next(it))
                      /\ Same(Union_poll_next(u), poll_next(it))
                /\ HasPending(it) => Same(Union_await_next(u), await_next(it))
                /\ Union_collect_local_statistic(u, 0) = collect_local_statistic(it, 0)

\* C22: collect_local_statistic drains: the call adds to the sink the
\* counters the iterator has accumulated, and a second call made right after
\* adds nothing.
C22_CollectDrains ==
    (cfg.root = "concat" /\ got.tag = "Stats") =>
        IF got.again THEN got.sink = got.before
        ELSE got.sink = got.before + it.stats

\* C23: seek treats an SST whose key range is marked inf as matching the seek
\* key whatever its left and right hold: the table seek goes to first is the
\* one the partition gives when the predicate holds of every inf table.
C23_InfAlwaysMatches ==
    (cfg.root = "concat" /\ last = "seek" /\ ret = "Ok" /\ it.tables # <<>>) =>
        LET matches == [i \in 1..Len(it.tables) |->
                          \/ it.key_ranges[i].inf
                          \/ ConcatInner_seek_pred(it.dir, it.key_ranges[i], start.key)]
        IN  loads[1] = saturating_sub(partition_point(matches), 1)

\* C24: the store call by which a concat iterator gets an SST is chosen by
\* the read option prefetch: the prefetching load when it is set, the
\* cache-only lookup when it is not, for the compaction iterator as well.
C24_PrefetchSelectsStoreCall ==
    cfg.root = "concat" =>
        \A i \in DOMAIN calls :
            calls[i].fn = IF cfg.prefetch THEN "load_table" ELSE "sstable"

\* C25: rechunk(chunks, limit) with limit > 0 gives ceil(total / limit)
\* chunks, total being the sum of the input cardinalities; every chunk but the
\* last holds limit rows, the last the rest; the rows of the output in order
\* are the rows of the input in order; an empty input gives an empty output.
C25_RechunkSplitsEvenly ==
    (cfg.root = "rechunk" /\ got.tag = "Chunks") =>
        LET limit == cfg.each_size_limit
            total == total_cardinality(cfg.chunks)
            out == got.chunks
            n == Len(out)
        IN  /\ n * limit >= total
            /\ n > 0 => (n - 1) * limit < total
            /\ \A i \in 1..n :
                  /\ out[i].cardinality = IF i < n THEN limit ELSE total - (n - 1) * limit
                  /\ Len(out[i].column) = out[i].cardinality
            /\ Flatten([i \in 1..n |-> out[i].column])
                 = Flatten([i \in 1..Len(cfg.chunks) |-> cfg.chunks[i].column])
            /\ cfg.chunks = <<>> => out = <<>>

\* the test: ten chunks of 60 rows at 80 give 80 seven times and 40, covering
\* 0..599 in order
C25_Witness ==
    /\ cfg.root = "rechunk" /\ got.tag = "Chunks"
    /\ cfg.chunks = TestChunks /\ cfg.each_size_limit = TestLimit
    /\ [i \in 1..Len(got.chunks) |-> got.chunks[i].cardinality]
         = <<80, 80, 80, 80, 80, 80, 80, 40>>
    /\ Flatten([i \in 1..Len(got.chunks) |-> got.chunks[i].column])
         = [i \in 1..600 |-> i - 1]

\* C26: poll_next of ConcatIteratorInner delegates to the SST iterator and
\* records why it suspends: Ready(Ok) with no pending stage when the child
\* stepped and is valid; Pending with AwaitSeekIdx when the child stepped off
\* its SST, the last of the run included; Pending with AwaitNext when the child
\* is itself pending; the child's error with no pending stage.
C26_PollNextRecordsStage ==
    (cfg.root = "concat" /\ cfg.kind = ConcatInner /\ last = "poll_next") =>
        LET child == it.sstable_iter[1]
        IN  /\ ret \in {"Ok", "Pending", "Err"}
            /\ ret = "Ok" => (Sst_is_valid(child) /\ it.pending_stage = "None")
            /\ ret = "Err" => it.pending_stage = "None"
            /\ ret = "Pending" =>
                  /\ ~Sst_is_valid(child)
                  /\ it.pending_stage = IF child.pending THEN "AwaitNext" ELSE "AwaitSeekIdx"

\* C27: await_next of ConcatIteratorInner resumes the recorded stage and ends
\* valid or exhausted with no stage left. For AwaitNext it awaits the child
\* and keeps it when it is then valid; when it is not, and for AwaitSeekIdx,
\* it rewinds SST cur_idx + 1 and cur_idx grows by one, or, past the end of
\* the run, releases the child and keeps cur_idx.
C27_AwaitNextResumesStage ==
    [][(cfg.root = "concat" /\ cfg.kind = ConcatInner
          /\ last' = "await_next" /\ ret' = "Ok") =>
        LET stage == it.pending_stage
            awaited == Sst_await_next(it.sstable_iter[1])
            moves == \/ stage = "AwaitSeekIdx"
                     \/ stage = "AwaitNext" /\ ~Sst_is_valid(awaited)
            idx == it.cur_idx + 1
        IN  /\ stage \in {"AwaitNext", "AwaitSeekIdx"}
            /\ it'.pending_stage = "None"
            /\ is_valid(it') \/ it'.sstable_iter = <<>>
            /\ ~moves =>
                  /\ it'.sstable_iter = <<awaited>>
                  /\ it'.cur_idx = it.cur_idx
                  /\ loads' = loads
            /\ (moves /\ idx < Len(it.tables)) =>
                  /\ it'.sstable_iter = <<Sst_rewind(Sst_create(it.tables[idx + 1], it.dir))>>
                  /\ it'.cur_idx = idx
                  /\ loads' = Append(loads, idx)
            /\ (moves /\ idx >= Len(it.tables)) =>
                  /\ it'.sstable_iter = <<>>
                  /\ it'.cur_idx = it.cur_idx
                  /\ loads' = loads]_vars

\* await_next found the child exhausted after awaiting it and moved to the
\* second SST
C27_Witness ==
    /\ cfg.root = "concat" /\ cfg.kind = ConcatInner /\ ~cfg.eager_end
    /\ last = "await_next" /\ ret = "Ok"
    /\ start.op = "rewind"
    /\ it.cur_idx = 1 /\ is_valid(it) /\ loads = <<0, 1>>

\* the 0-based index of the last SST of the run of which reached holds, 0
\* when there is none
LastReached(reached) ==
    LET cands == {i \in DOMAIN reached : reached[i]}
    IN  IF cands = {} THEN 0
        ELSE (CHOOSE i \in cands : \A j \in cands : j <= i) - 1

\* what seek(k) leaves when it goes to SST first of the run: the child sought
\* to k when that is valid, else the next SST rewound, else no child
SeekFrom(first) ==
    LET sought == Sst_seek(Sst_create(it.tables[first + 1], it.dir), start.key)
    IN  /\ loads[1] = first
        /\ Len(loads) <= 2
        /\ IF Sst_is_valid(sought)
           THEN /\ loads = <<first>>
                /\ it.cur_idx = first
                /\ it.sstable_iter = <<sought>>
           ELSE IF first + 1 < Len(it.tables)
           THEN /\ loads = <<first, first + 1>>
                /\ it.cur_idx = first + 1
                /\ it.sstable_iter =
                       <<Sst_rewind(Sst_create(it.tables[first + 2], it.dir))>>
           ELSE /\ loads = <<first>>
                /\ it.sstable_iter = <<>>

\* C28 as stated: seek(k) goes to the last SST whose far end (the right end
\* of the key range for forward, the left end for backward) is not strictly
\* past k, seeks k there and, if that child is then invalid, rewinds the next
\* SST; it loads at most these two.
C28_SeekPartitionsByFarEnd ==
    (cfg.root = "concat" /\ last = "seek" /\ ret = "Ok" /\ it.tables # <<>>) =>
        SeekFrom(LastReached([i \in 1..Len(it.tables) |->
            IF it.dir = Forward
            THEN compare_key(it.key_ranges[i].right, start.key) \in {"Less", "Equal"}
            ELSE compare_key(it.key_ranges[i].left, start.key) \in {"Greater", "Equal"}]))

\* C28 amended: seek(k) goes to the last SST whose near end (the left end of
\* the key range for forward, the right end for backward) is not strictly
\* past k, seeks k there and, if that child is then invalid, rewinds the next
\* SST; it loads at most these two.
C28_SeekPartitionsByNearEnd ==
    (cfg.root = "concat" /\ last = "seek" /\ ret = "Ok" /\ it.tables # <<>>) =>
        SeekFrom(LastReached([i \in 1..Len(it.tables) |->
            IF it.dir = Forward
            THEN compare_key(it.key_ranges[i].left, start.key) \in {"Less", "Equal"}
            ELSE compare_key(it.key_ranges[i].right, start.key) \in {"Greater", "Equal"}]))

\* seek(k) found no entry at or past k in the SST it went to and rewound the
\* next one
C28_Witness ==
    /\ cfg.root = "concat" /\ cfg.kind = ConcatInner
    /\ last = "seek" /\ ret = "Ok"
    /\ loads = <<0, 1>> /\ it.cur_idx = 1 /\ is_valid(it)

\* C29: a call that replaces or releases the child SST iterator adds the
\* child's counters to the concat iterator's own counters once, and with them
\* those of a child that seek created and dropped within the call; a call
\* that keeps the child leaves the own counters alone. So the own counters
\* and the held child's together never lose a count.
C29_ChildSwapCollects ==
    [][(cfg.root = "concat" /\ cfg.kind \in {ConcatInner, ConcatCompact}
          /\ got' = NoneGot /\ ret' # "Err") =>
        LET held == IF it.sstable_iter # <<>> THEN it.sstable_iter[1].stats ELSE 0
            swapped == calls' # <<>> \/ (it.sstable_iter # <<>> /\ it'.sstable_iter = <<>>)
            passed == IF last' = "seek" /\ (Len(calls') = 2 \/ it'.sstable_iter = <<>>)
                      THEN StatUnit ELSE 0
        IN  /\ swapped => it'.stats = it.stats + held + passed
            /\ ~swapped => it'.stats = it.stats
            /\ Counted(it') >= Counted(it)]_vars

\* a scan from rewind ran past the end of a run of two SSTs or more and the
\* last child was released: the own counters hold what every child counted
C29_Witness ==
    /\ cfg.root = "concat" /\ cfg.kind = ConcatInner /\ cfg.stats
    /\ last \in {"next", "await_next"} /\ ret = "Ok"
    /\ Len(it.tables) >= 2 /\ Len(emitted) >= 2
    /\ it.sstable_iter = <<>>
    /\ it.stats >= 2

\* C30: between the calls of a merge iterator none of which failed, every
\* child is either in the heap or in unused_iters, the heap holds the
\* children that are valid and unused_iters those that are not (before the
\* first rewind or seek: all of them), and the merge is valid exactly when
\* the heap is not empty.
C30_HeapHoldsTheValidChildren ==
    (cfg.root = "merge" /\ mret # "Err") =>
        /\ heap \cup unused_iters = DOMAIN iters
        /\ heap \cap unused_iters = {}
        /\ \A c \in heap : is_valid(iters[c])
        /\ \A c \in unused_iters : ~is_valid(iters[c])
        /\ Merge_is_valid(iters, top) <=> heap # {}

\* after a next() one child is exhausted and listed while another is still in
\* the heap
C30_Witness ==
    /\ cfg.root = "merge" /\ last = "next" /\ mret = "Ok"
    /\ heap # {} /\ unused_iters # {}
    /\ Merge_is_valid(iters, top)

\* C31: a merge iterator never loses a child: after any calls, failed ones
\* included, every child supplied at construction is in exactly one of the
\* heap and unused_iters, so as many are held as were supplied.
C31_NoChildLost ==
    cfg.root = "merge" =>
        /\ heap \cap unused_iters = {}
        /\ Cardinality(heap \cup unused_iters) = Len(iters)

\* C32: when await_next of a concat iterator has returned, with Ok or with an
\* error, no pending stage is recorded: pending_stage is None
\* (ConcatIteratorInner) and is_pending is false (ConcatSstableIterator).
C32_AwaitNextClearsStage ==
    (cfg.root = "concat" /\ cfg.kind \in {ConcatInner, ConcatCompact}
       /\ last = "await_next") =>
        /\ it.pending_stage = "None"
        /\ ~it.is_pending

\* C33: after a rewind or seek of a concat iterator that returned an error
\* is_valid() is false, whatever position the iterator held before.
C33_FailedRewindSeekInvalidates ==
    (cfg.root = "concat" /\ cfg.kind \in {ConcatInner, ConcatCompact}
       /\ last \in {"rewind", "seek"} /\ ret = "Err") =>
        ~is_valid(it)

\* the children a merge iterator holds
Held == heap \cup unused_iters

\* C34: a rewind or seek of a merge iterator in which a child's rewind or
\* seek fails returns the error with the heap empty, is_valid() false and
\* every child it held in unused_iters; a rewind that succeeds holds the same
\* children, all those that are then valid in the heap.
C34_FailedRewindSeekKeepsChildren ==
    [][(cfg.root = "merge" /\ last' \in {"rewind", "seek"} /\ got' = NoneGot) =>
          /\ mret' \in {"Ok", "Err"}
          /\ mret' = "Err" =>
                /\ heap' = {}
                /\ unused_iters' = Held
                /\ ~Merge_is_valid(iters', top')
          /\ mret' = "Ok" =>
                /\ heap' \cup unused_iters' = Held
                /\ heap' = {c \in Held : is_valid(iters'[c])}
                /\ last' = "rewind" => heap' = {c \in Held : iters'[c].tables # <<>>}]_vars

\* a rewind failed under one child after the other, still listed, had
\* completed its own and is valid
C34_Witness ==
    /\ cfg.root = "merge" /\ last = "rewind" /\ mret = "Err"
    /\ heap = {} /\ Cardinality(unused_iters) = 2
    /\ \E c \in unused_iters : c # failed /\ is_valid(iters[c])

\* the children holding key k, and the entry child c holds for it
Holders(k) == {c \in Children : k \in KeysOf(AscEntries(iters[c]))}
EntryOf(c, k) == CHOOSE e \in Range(AscEntries(iters[c])) : e.key = k

\* the children of S by ascending index
RECURSIVE ByIndex(_)
ByIndex(S) ==
    IF S = {} THEN <<>>
    ELSE LET c == CHOOSE x \in S : \A y \in S : x <= y
         IN  <<c>> \o ByIndex(S \ {c})

\* the keys of the children in the order of the scan
ScanKeys ==
    LET asc == SortKeys({e.key : e \in AllChildEntries})
    IN  IF cfg.dir = Forward THEN asc ELSE Reverse(asc)

\* the child whose entry an ordered merge presents for key k
Winner(k) ==
    IF cfg.dir = Forward THEN CHOOSE c \in Holders(k) : \A d \in Holders(k) : c <= d
    ELSE CHOOSE c \in Holders(k) : \A d \in Holders(k) : c >= d

\* the entries of the children in the order of the scan: an ordered merge's
\* one entry per key, an unordered merge's entries of a key in the order of
\* the children
ScanInChildOrder ==
    Flatten([i \in 1..Len(ScanKeys) |->
        IF cfg.ordered THEN <<EntryOf(Winner(ScanKeys[i]), ScanKeys[i])>>
        ELSE [j \in 1..Cardinality(Holders(ScanKeys[i])) |->
                EntryOf(ByIndex(Holders(ScanKeys[i]))[j], ScanKeys[i])]])

KeySeq(seen) == [i \in 1..Len(seen) |-> seen[i].key]

C36_ScanLoadsEachSstOnce ==
    (cfg.root = "concat" /\ cfg.kind \in {ConcatInner, ConcatCompact}
       /\ start.op = "rewind") =>
        /\ loads = [i \in 1..Len(loads) |-> i - 1]
        /\ Len(loads) <= Len(it.tables)
        /\ ConcatScanned => Len(loads) = Len(it.tables)
        /\ is_valid(it) =>
              /\ it.cur_idx < Len(it.tables)
              /\ Len(loads) = it.cur_idx + 1
              /\ key(it) \in KeysOf(it.tables[it.cur_idx + 1])

\* a backward scan has passed from the first SST of its run to the second
\* and stands on a key of it
C36_Witness ==
    /\ cfg.root = "concat" /\ cfg.kind = ConcatInner /\ cfg.dir = Backward
    /\ start.op = "rewind" /\ last \in {"next", "await_next"}
    /\ is_valid(it) /\ it.cur_idx = 1 /\ loads = <<0, 1>>
    /\ Len(emitted) >= 2

\* the forward ConcatIteratorInner over the same run in the same position
Twin(c) == [c EXCEPT !.kind = ConcatInner]

\* C37: ConcatSstableIterator and the forward ConcatIteratorInner agree on
\* the same run: from the same position the same call (rewind, seek(k) or
\* next, none failing) returns the same, leaves both in the same position,
\* and they agree on is_valid() and, when valid, on key() and value().
C37_CompactEquivalentToForwardConcat ==
    [][(cfg.root = "concat" /\ cfg.kind = ConcatCompact /\ got' = NoneGot
          /\ last' \in {"rewind", "seek", "next"}) =>
        LET r == CASE last' = "rewind" -> rewind(Twin(it))
                   [] last' = "seek" -> seek(Twin(it), start'.key)
                   [] last' = "next" -> next(Twin(it))
        IN  /\ r.ret = ret'
            /\ r.it = Twin(it')
            /\ is_valid(r.it) = is_valid(it')
            /\ is_valid(it') => (key(r.it) = key(it') /\ value(r.it) = value(it'))]_vars

\* a next() of the compaction iterator that moved from the first SST of the
\* run to the second
C37_Witness ==
    /\ cfg.root = "concat" /\ cfg.kind = ConcatCompact
    /\ last = "next" /\ ret = "Ok"
    /\ is_valid(it) /\ it.cur_idx = 1 /\ Len(emitted) >= 2

====
